---- MODULE Spec2Model ----
(***************************************************************************)
(* Votrax SC-01A emulator (votrax.py): the phoneme sequencer, the ROM      *)
(* decoder, the LFSR noise source and the sample loop of class            *)
(* VotraxSC01A, as a state machine over the instance's integer fields.     *)
(***************************************************************************)
EXTENDS Integers, Sequences, FiniteSets, TLC

VARIABLES
    rom_file,   \* the file at rom_path: [exists, content, len]
    err,        \* outcome of VotraxSC01A(rom_path): "none" or "ValueError"
    synth,      \* the VotraxSC01A instance (its fields)
    op,         \* the last call made on the instance: [name, arg]
    writes,     \* number of write_phone calls since construction or the last reset
    seen,       \* noise values produced by the chip updates so far (SpecOrbit);
                \* the ticks of the latest chip updates, oldest first (SpecPitch)
    probe,      \* [reg, target, n]: interpolate applied n times (SpecInterp)
    buf,        \* the array the last generate_samples call returned
    twin        \* a second instance, its last array, and how the two have been
                \* driven (SpecTwin); an instance without ROM file that is never
                \* written to and generates the same samples (SpecPitch)

vars == <<rom_file, err, synth, op, writes, seen, probe, buf, twin>>

(***************************************************************************)
(* Integer bit operations of Python on non-negative ints.                  *)
(***************************************************************************)
Shr(x, n) == x \div (2 ^ n)

Shl(x, n) == x * (2 ^ n)

RECURSIVE BitAnd(_, _)
BitAnd(x, y) ==
    IF x = 0 \/ y = 0 THEN 0
    ELSE ((x % 2) * (y % 2)) + 2 * BitAnd(x \div 2, y \div 2)

RECURSIVE BitOr(_, _)
BitOr(x, y) ==
    IF x = 0 THEN y
    ELSE IF y = 0 THEN x
    ELSE (IF (x % 2) + (y % 2) > 0 THEN 1 ELSE 0) + 2 * BitOr(x \div 2, y \div 2)

RECURSIVE BitXor(_, _)
BitXor(x, y) ==
    IF x = 0 THEN y
    ELSE IF y = 0 THEN x
    ELSE (((x % 2) + (y % 2)) % 2) + 2 * BitXor(x \div 2, y \div 2)

(***************************************************************************)
(* 64-bit words.  struct.unpack('<Q', b) of eight bytes is held as its     *)
(* bits: w[p] is bit p of the word, byte 0 being the least significant.    *)
(***************************************************************************)
Unpack(b) == [p \in 0..63 |-> (b[(p \div 8) + 1] \div (2 ^ (p % 8))) % 2]

WordZero == [p \in 0..63 |-> 0]

\* val ^ 0xFFFFFFFFFFFFFFFF
WordInvert(w) == [p \in 0..63 |-> 1 - w[p]]

\* (w >> 56) & 0x3F
WordCode(w) ==
    w[56] + 2 * w[57] + 4 * w[58] + 8 * w[59] + 16 * w[60] + 32 * w[61]

\* the loop of lines 65-68 from the i-th of bits on, res being the result so
\* far: res |= ((val >> bit_pos) & 1) << (len(bits) - 1 - i), i from 0 there
RECURSIVE bitswapFrom(_, _, _, _)
bitswapFrom(val, bits, i, res) ==
    IF i > Len(bits) THEN res
    ELSE bitswapFrom(val, bits, i + 1,
                     BitOr(res, Shl(val[bits[i]], Len(bits) - i)))

\* bitswap with the first position listed going to the result's LSB
bitswap_lsb_first(val, bits) ==
    bitswapFrom(val, [i \in 1..Len(bits) |-> bits[Len(bits) + 1 - i]], 1, 0)

\* bitswap(val, *bits): bits[1] is the position that goes to the result's MSB
bitswap(val, bits) == bitswapFrom(val, bits, 1, 0)

(***************************************************************************)
(* ROM file contents.  Entry i of a file (bytes 8i .. 8i+7) is one 64-bit  *)
(* little-endian record; the records below carry, for a few phone codes,   *)
(* non-trivial fields, every other code an all-zero field part.            *)
(***************************************************************************)
CLOCK_FREQ == 720000

RomSize == 512

\* the records of the codes that carry fields (code -> eight bytes)
EntrySTOP == <<160, 10, 131, 6, 240, 15, 0, 63>>
EntryPA0  == <<132, 4, 172, 52, 224, 7, 0, 195>>
EntryPA1  == <<32, 74, 13, 3, 224, 15, 0, 62>>
EntryEH3  == <<39, 153, 197, 224, 224, 15, 0, 0>>
EntryS    == <<124, 118, 57, 14, 224, 11, 0, 31>>
EntryP    == <<66, 22, 46, 123, 240, 15, 0, 101>>
EntryDUP0 == <<201, 100, 242, 23, 243, 3, 0, 0>>

EntryOfCode(c) ==
    CASE c = 63 -> EntrySTOP
      [] c = 3  -> EntryPA0
      [] c = 62 -> EntryPA1
      [] c = 0  -> EntryEH3
      [] c = 31 -> EntryS
      [] c = 37 -> EntryP
      [] OTHER  -> <<0, 0, 0, 0, 0, 0, 0, c>>

\* a well-formed ROM: entry i holds the record of code 63 - i
GoodBytes ==
    SubSeq([k \in 1..512 |-> EntryOfCode(63 - ((k - 1) \div 8))[((k - 1) % 8) + 1]],
           1, 512)

\* the same with the record of code 31 (entry 32) replaced by a second record
\* of code 0: no entry for code 31, two for code 0
HolesBytes ==
    SubSeq([k \in 1..512 |->
               IF (k - 1) \div 8 = 32 THEN EntryDUP0[((k - 1) % 8) + 1] ELSE GoodBytes[k]],
           1, 512)

\* a file 8 bytes too long, a file 8 bytes too short
LongBytes == GoodBytes \o <<255, 255, 255, 255, 255, 255, 255, 255>>

ShortBytes == SubSeq(GoodBytes, 1, 504)

ZeroBytes == SubSeq([k \in 1..512 |-> 0], 1, 512)

Content(name) ==
    CASE name = "good"  -> GoodBytes
      [] name = "holes" -> HolesBytes
      [] name = "long"  -> LongBytes
      [] name = "short" -> ShortBytes
      [] name = "zeros" -> ZeroBytes

File(name) == [exists |-> TRUE, content |-> name, len |-> Len(Content(name))]

NoFile == [exists |-> FALSE, content |-> "zeros", len |-> 0]

(***************************************************************************)
(* VotraxSC01A.load_rom.  self.rom_data is held as [content, len]: the     *)
(* first len bytes of the named content.                                   *)
(***************************************************************************)
Min(a, b) == IF a < b THEN a ELSE b

\* f.read(512): at most 512 bytes of the file
ReadRom(f) == [content |-> f.content, len |-> Min(f.len, RomSize)]

\* [err, rom_data]: the exception raised ("none": returned) and self.rom_data
load_rom(f) ==
    IF ~f.exists
    THEN [err |-> "none", rom_data |-> [content |-> "zeros", len |-> RomSize]]
    ELSE LET data == ReadRom(f) IN
         IF data.len # RomSize
         THEN [err |-> "ValueError", rom_data |-> data]
         ELSE [err |-> "none", rom_data |-> data]

\* rom_data[k]
\* rom_data[k].  A ROM with a field `order' holds the 8-byte entries of its
\* content in another order: its entry i is entry order[i + 1] of the content
RomByte(rd, k) ==
    IF "order" \in DOMAIN rd
    THEN Content(rd.content)[(8 * rd.order[(k \div 8) + 1]) + (k % 8) + 1]
    ELSE Content(rd.content)[k + 1]

\* rom_data[idx:idx+8] for idx = 8 * i
EntryBytes(rd, i) == [j \in 1..8 |-> RomByte(rd, (8 * i) + (j - 1))]

(***************************************************************************)
(* VotraxSC01A.phone_commit                                                *)
(***************************************************************************)
\* RomScan falling back to the last candidate read instead of 0
RECURSIVE RomScanLast(_, _, _)
RomScanLast(rd, phone, i) ==
    LET candidate_val == Unpack(EntryBytes(rd, i)) IN
    IF phone = WordCode(candidate_val) \/ i = 63 THEN candidate_val
    ELSE RomScanLast(rd, phone, i + 1)

\* the search loop: the first entry whose bits 56..61 equal the phone, else 0
RECURSIVE RomScan(_, _, _)
RomScan(rd, phone, i) ==
    IF i = 64 THEN WordZero
    ELSE LET candidate_val == Unpack(EntryBytes(rd, i)) IN
         IF phone = WordCode(candidate_val) THEN candidate_val
         ELSE RomScan(rd, phone, i + 1)

\* the entry at the index a ROM sorted by descending code has the phone at
RomLookupByIndex(rd, phone) == Unpack(EntryBytes(rd, 63 - phone))

RomLookup(rd, phone) == RomScan(rd, phone, 0)

\* the decoded fields of a 64-bit ROM word
Decode(val) ==
    [rom_f1       |-> bitswap(val, <<0, 7, 14, 21>>),
     rom_va       |-> bitswap(val, <<1, 8, 15, 22>>),
     rom_f2       |-> bitswap(val, <<2, 9, 16, 23>>),
     rom_fc       |-> bitswap(val, <<3, 10, 17, 24>>),
     rom_f2q      |-> bitswap(val, <<4, 11, 18, 25>>),
     rom_f3       |-> bitswap(val, <<5, 12, 19, 26>>),
     rom_fa       |-> bitswap(val, <<6, 13, 20, 27>>),
     rom_cld      |-> bitswap(val, <<34, 32, 30, 28>>),
     rom_vd       |-> bitswap(val, <<35, 33, 31, 29>>),
     rom_closure  |-> bitswap(val, <<36>>),
     rom_duration |-> bitswap(WordInvert(val), <<37, 38, 39, 40, 41, 42, 43>>)]

\* Decode(RomLookup(rd, phone)) for phone = 0..63, tabulated once per content
\* (the row of phone p is element p + 1)
Rows(rd) == SubSeq([p \in 1..64 |-> Decode(RomLookup(rd, p - 1))], 1, 64)

GoodRows == Rows([content |-> "good", len |-> RomSize])

HolesRows == Rows([content |-> "holes", len |-> RomSize])

LongRows == Rows([content |-> "long", len |-> RomSize])

ZeroRows == Rows([content |-> "zeros", len |-> RomSize])

RomRow(rd, phone) ==
    IF phone \in 0..63 /\ "order" \notin DOMAIN rd
    THEN (CASE rd.content = "good"  -> GoodRows
            [] rd.content = "holes" -> HolesRows
            [] rd.content = "long"  -> LongRows
            [] rd.content = "zeros" -> ZeroRows)[phone + 1]
    ELSE Decode(RomLookup(rd, phone))

IsPausePhone(phone) == (phone = 3) \/ (phone = 62)

phone_commit(s) ==
    LET d == RomRow(s.rom_data, s.phone) IN
    [s EXCEPT
        !.phonetick    = 0,
        !.ticks        = 0,
        !.rom_f1       = d.rom_f1,
        !.rom_va       = d.rom_va,
        !.rom_f2       = d.rom_f2,
        !.rom_fc       = d.rom_fc,
        !.rom_f2q      = d.rom_f2q,
        !.rom_f3       = d.rom_f3,
        !.rom_fa       = d.rom_fa,
        !.rom_cld      = d.rom_cld,
        !.rom_vd       = d.rom_vd,
        !.rom_closure  = d.rom_closure,
        !.rom_duration = d.rom_duration,
        !.rom_pause    = IsPausePhone(s.phone),
        !.cur_closure  = IF d.rom_cld = 0 THEN (d.rom_closure # 0) ELSE @]

(***************************************************************************)
(* Signal values.  A float of the analog path is followed only as far as   *)
(* whether it is known to be zero: Zero is 0.0 or -0.0, Float any float    *)
(* the model does not follow (a value that may be nonzero).                *)
(***************************************************************************)
Zero == "zero"

Float == "float"

\* np.zeros(4, dtype=np.float64), a history
ZeroHist == <<Zero, Zero, Zero, Zero>>

(***************************************************************************)
(* Filter coefficients.  A coefficient is a float the builders compute     *)
(* from their arguments and the clock; it is held as the term that         *)
(* computes it, [c |-> the builder's expression, of |-> its arguments], so *)
(* that equal terms are equal floats.  Num(n) is the literal n.  The       *)
(* computed terms are finite and the b[0] of every builder is positive     *)
(* (1 + m1 + m2, 1 + m with positive m).                                   *)
(***************************************************************************)
Num(n) == [c |-> "num", of |-> <<n>>]

Coef(name, args) == [c |-> name, of |-> args]

\* np.zeros(4)
Zeros4 == <<Num(0), Num(0), Num(0), Num(0)>>

RECURSIVE bits_to_caps_from(_, _, _)
bits_to_caps_from(val, caps, i) ==
    IF i > Len(caps) THEN 0
    ELSE (IF BitAnd(Shr(val, i - 1), 1) # 0 THEN caps[i] ELSE 0)
         + bits_to_caps_from(val, caps, i + 1)

bits_to_caps_subtracted(val, caps) == 0 - bits_to_caps_from(val, caps, 1)

bits_to_caps(val, caps) == bits_to_caps_from(val, caps, 1)

\* the builders write into the arrays a and b they are given: [a, b] after
build_standard_filter(a, b, c1t, c1b, c2t, c2b, c3, c4) ==
    LET args == <<c1t, c1b, c2t, c2b, c3, c4>> IN
    [a |-> <<Coef("standard 1 + m0", args), Coef("standard 3 + m0", args),
             Coef("standard 3 - m0", args), Coef("standard 1 - m0", args)>>,
     b |-> <<Coef("standard 1 + m1 + m2", args), Coef("standard 3 + m1 - m2", args),
             Coef("standard 3 - m1 - m2", args), Coef("standard 1 - m1 + m2", args)>>]

build_lowpass_filter(a, b, c1t, c1b) ==
    LET args == <<c1t, c1b>> IN
    [a |-> [a EXCEPT ![1] = Num(1)],
     b |-> [b EXCEPT ![1] = Coef("lowpass 1 + m", args),
                     ![2] = Coef("lowpass 1 - m", args)]]

build_noise_shaper_filter(a, b, c1, c2t, c2b, c3, c4) ==
    LET args == <<c1, c2t, c2b, c3, c4>> IN
    [a |-> [a EXCEPT ![1] = Coef("shaper m0", args),
                     ![2] = Num(0),
                     ![3] = Coef("shaper -m0", args)],
     b |-> [b EXCEPT ![1] = Coef("shaper 1 + m1 + m2", args),
                     ![2] = Coef("shaper 2 - 2*m2", args),
                     ![3] = Coef("shaper 1 - m1 + m2", args)]]

\* build_injection_filter without the four neutralizing assignments
build_injection_filter_active(a, b, c1b, c2t, c2b, c3, c4) ==
    LET args == <<c1b, c2t, c2b, c3, c4>> IN
    [a |-> [a EXCEPT ![1] = Coef("injection k0 + m", args),
                     ![2] = Coef("injection k0 - m", args)],
     b |-> [b EXCEPT ![1] = Coef("injection k1 - m", args),
                     ![2] = Coef("injection k1 + m", args)]]

\* lines 352-355 write the computed form, lines 358-361 overwrite it
build_injection_filter(a, b, c1b, c2t, c2b, c3, c4) ==
    LET args == <<c1b, c2t, c2b, c3, c4>>
        a1 == [a EXCEPT ![1] = Coef("injection k0 + m", args),
                        ![2] = Coef("injection k0 - m", args)]
        b1 == [b EXCEPT ![1] = Coef("injection k1 - m", args),
                        ![2] = Coef("injection k1 + m", args)]
    IN [a |-> [a1 EXCEPT ![1] = Num(0), ![2] = Num(0)],
        b |-> [b1 EXCEPT ![1] = Num(1), ![2] = Num(0)]]

(***************************************************************************)
(* VotraxSC01A.filters_commit: the quantized registers and the filters     *)
(* rebuilt from them.                                                      *)
(***************************************************************************)
\* filters_commit that builds filters on a forced commit only: a routine
\* commit quantizes the registers and leaves every coefficient as it is
filters_commit_forced_only(s, force) ==
    LET update_f1 == force
        update_f2 == force
        update_f3 == force
        filt_f1   == Shr(s.cur_f1, 4)
        filt_f2   == Shr(s.cur_f2, 3)
        filt_f2q  == Shr(s.cur_f2q, 4)
        filt_f3   == Shr(s.cur_f3, 4)
        caps_q    == bits_to_caps(filt_f2q, <<1390, 2965, 5875, 11297>>)
        caps_v    == bits_to_caps(filt_f2, <<833, 1663, 3164, 6327, 12654>>)
        f1  == build_standard_filter(s.f1_a, s.f1_b, 11247, 11797, 949, 52067,
                   2280 + bits_to_caps(filt_f1, <<2546, 4973, 9861, 19724>>), 166272)
        f2v == build_standard_filter(s.f2v_a, s.f2v_b, 24840, 29154, 829 + caps_q,
                   38180, 2352 + caps_v, 34270)
        f2n == build_injection_filter(s.f2n_a, s.f2n_b, 29154, 829 + caps_q,
                   38180, 2352 + caps_v, 34270)
        f3  == build_standard_filter(s.f3_a, s.f3_b, 0, 17594, 868, 18828,
                   8480 + bits_to_caps(filt_f3, <<2226, 4485, 9056, 18111>>), 50019)
        f4  == build_standard_filter(s.f4_a, s.f4_b, 0, 28810, 1165, 21457, 8558, 7289)
        fx  == build_lowpass_filter(s.fx_a, s.fx_b, 1122, 23131)
        fn  == build_noise_shaper_filter(s.fn_a, s.fn_b, 15500, 14854, 8450, 9523, 14083)
    IN
    [s EXCEPT
        !.filt_fa  = Shr(s.cur_fa, 4),
        !.filt_fc  = Shr(s.cur_fc, 4),
        !.filt_va  = Shr(s.cur_va, 4),
        !.filt_f1  = IF @ # Shr(s.cur_f1, 4) THEN Shr(s.cur_f1, 4) ELSE @,
        !.filt_f2  = IF s.filt_f2 # Shr(s.cur_f2, 3) \/ s.filt_f2q # Shr(s.cur_f2q, 4)
                     THEN Shr(s.cur_f2, 3) ELSE @,
        !.filt_f2q = IF s.filt_f2 # Shr(s.cur_f2, 3) \/ s.filt_f2q # Shr(s.cur_f2q, 4)
                     THEN Shr(s.cur_f2q, 4) ELSE @,
        !.filt_f3  = IF @ # Shr(s.cur_f3, 4) THEN Shr(s.cur_f3, 4) ELSE @,
        !.f1_a     = IF update_f1 THEN f1.a ELSE @,
        !.f1_b     = IF update_f1 THEN f1.b ELSE @,
        !.f2v_a    = IF update_f2 THEN f2v.a ELSE @,
        !.f2v_b    = IF update_f2 THEN f2v.b ELSE @,
        !.f2n_a    = IF update_f2 THEN f2n.a ELSE @,
        !.f2n_b    = IF update_f2 THEN f2n.b ELSE @,
        !.f3_a     = IF update_f3 THEN f3.a ELSE @,
        !.f3_b     = IF update_f3 THEN f3.b ELSE @,
        !.f4_a     = IF force THEN f4.a ELSE @,
        !.f4_b     = IF force THEN f4.b ELSE @,
        !.fx_a     = IF force THEN fx.a ELSE @,
        !.fx_b     = IF force THEN fx.b ELSE @,
        !.fn_a     = IF force THEN fn.a ELSE @,
        !.fn_b     = IF force THEN fn.b ELSE @]

filters_commit(s, force) ==
    LET update_f1 == force \/ s.filt_f1 # Shr(s.cur_f1, 4)
        update_f2 == force \/ s.filt_f2 # Shr(s.cur_f2, 3)
                           \/ s.filt_f2q # Shr(s.cur_f2q, 4)
        update_f3 == force \/ s.filt_f3 # Shr(s.cur_f3, 4)
        filt_f1   == Shr(s.cur_f1, 4)
        filt_f2   == Shr(s.cur_f2, 3)
        filt_f2q  == Shr(s.cur_f2q, 4)
        filt_f3   == Shr(s.cur_f3, 4)
        caps_q    == bits_to_caps(filt_f2q, <<1390, 2965, 5875, 11297>>)
        caps_v    == bits_to_caps(filt_f2, <<833, 1663, 3164, 6327, 12654>>)
        f1  == build_standard_filter(s.f1_a, s.f1_b, 11247, 11797, 949, 52067,
                   2280 + bits_to_caps(filt_f1, <<2546, 4973, 9861, 19724>>), 166272)
        f2v == build_standard_filter(s.f2v_a, s.f2v_b, 24840, 29154, 829 + caps_q,
                   38180, 2352 + caps_v, 34270)
        f2n == build_injection_filter(s.f2n_a, s.f2n_b, 29154, 829 + caps_q,
                   38180, 2352 + caps_v, 34270)
        f3  == build_standard_filter(s.f3_a, s.f3_b, 0, 17594, 868, 18828,
                   8480 + bits_to_caps(filt_f3, <<2226, 4485, 9056, 18111>>), 50019)
        f4  == build_standard_filter(s.f4_a, s.f4_b, 0, 28810, 1165, 21457, 8558, 7289)
        fx  == build_lowpass_filter(s.fx_a, s.fx_b, 1122, 23131)
        fn  == build_noise_shaper_filter(s.fn_a, s.fn_b, 15500, 14854, 8450, 9523, 14083)
    IN
    [s EXCEPT
        !.filt_fa  = Shr(s.cur_fa, 4),
        !.filt_fc  = Shr(s.cur_fc, 4),
        !.filt_va  = Shr(s.cur_va, 4),
        !.filt_f1  = IF @ # Shr(s.cur_f1, 4) THEN Shr(s.cur_f1, 4) ELSE @,
        !.filt_f2  = IF s.filt_f2 # Shr(s.cur_f2, 3) \/ s.filt_f2q # Shr(s.cur_f2q, 4)
                     THEN Shr(s.cur_f2, 3) ELSE @,
        !.filt_f2q = IF s.filt_f2 # Shr(s.cur_f2, 3) \/ s.filt_f2q # Shr(s.cur_f2q, 4)
                     THEN Shr(s.cur_f2q, 4) ELSE @,
        !.filt_f3  = IF @ # Shr(s.cur_f3, 4) THEN Shr(s.cur_f3, 4) ELSE @,
        !.f1_a     = IF update_f1 THEN f1.a ELSE @,
        !.f1_b     = IF update_f1 THEN f1.b ELSE @,
        !.f2v_a    = IF update_f2 THEN f2v.a ELSE @,
        !.f2v_b    = IF update_f2 THEN f2v.b ELSE @,
        !.f2n_a    = IF update_f2 THEN f2n.a ELSE @,
        !.f2n_b    = IF update_f2 THEN f2n.b ELSE @,
        !.f3_a     = IF update_f3 THEN f3.a ELSE @,
        !.f3_b     = IF update_f3 THEN f3.b ELSE @,
        !.f4_a     = IF force THEN f4.a ELSE @,
        !.f4_b     = IF force THEN f4.b ELSE @,
        !.fx_a     = IF force THEN fx.a ELSE @,
        !.fx_b     = IF force THEN fx.b ELSE @,
        !.fn_a     = IF force THEN fn.a ELSE @,
        !.fn_b     = IF force THEN fn.b ELSE @]

(***************************************************************************)
(* VotraxSC01A.reset, write_phone, get_phoneme_duration_samples            *)
(***************************************************************************)
\* lines 100-180: every attribute assigned afresh, ahead of the two commits
Cleared(s) ==
        [rom_data |-> s.rom_data, mainclock |-> s.mainclock,
         phone |-> 63, inflection |-> 0, ar_state |-> 1, sample_count |-> 0,
         phonetick |-> 0, ticks |-> 0,
         cur_fa |-> 0, cur_fc |-> 0, cur_va |-> 0, cur_f1 |-> 0,
         cur_f2 |-> 0, cur_f2q |-> 0, cur_f3 |-> 0,
         rom_duration |-> 0, rom_cld |-> 0, rom_vd |-> 0, rom_closure |-> 0,
         rom_pause |-> FALSE,
         rom_fa |-> 0, rom_va |-> 0, rom_f2 |-> 0, rom_fc |-> 0,
         rom_f2q |-> 0, rom_f3 |-> 0, rom_f1 |-> 0,
         filt_fa |-> 0, filt_fc |-> 0, filt_va |-> 0, filt_f1 |-> 0,
         filt_f2 |-> 0, filt_f2q |-> 0, filt_f3 |-> 0,
         pitch |-> 0, closure |-> 0, cur_closure |-> TRUE,
         update_counter |-> 0, noise |-> 0, cur_noise |-> FALSE,
         voice_1 |-> ZeroHist, voice_2 |-> ZeroHist, voice_3 |-> ZeroHist,
         noise_1 |-> ZeroHist, noise_2 |-> ZeroHist, noise_3 |-> ZeroHist,
         noise_4 |-> ZeroHist,
         vn_1 |-> ZeroHist, vn_2 |-> ZeroHist, vn_3 |-> ZeroHist,
         vn_4 |-> ZeroHist, vn_5 |-> ZeroHist, vn_6 |-> ZeroHist,
         f1_a |-> Zeros4, f1_b |-> Zeros4, f2v_a |-> Zeros4, f2v_b |-> Zeros4,
         f2n_a |-> Zeros4, f2n_b |-> Zeros4, f3_a |-> Zeros4, f3_b |-> Zeros4,
         f4_a |-> Zeros4, f4_b |-> Zeros4, fx_a |-> Zeros4, fx_b |-> Zeros4,
         fn_a |-> Zeros4, fn_b |-> Zeros4]

\* reset that lets the noise shift register run on
reset_keeping_noise(s) ==
    LET c == Cleared(s) IN
    filters_commit(phone_commit(
        [c EXCEPT !.noise = IF "noise" \in DOMAIN s THEN s.noise ELSE @,
                  !.cur_noise = IF "cur_noise" \in DOMAIN s THEN s.cur_noise ELSE @]),
        TRUE)

\* reset that clears the attributes and commits nothing
reset_without_commit(s) == Cleared(s)

reset(s) == filters_commit(phone_commit(Cleared(s)), TRUE)

\* the mask one bit short
Mask5(phone) == phone % 32

\* phone & 0x3F, for any Python int (two's complement for a negative one)
Mask6(phone) == phone % 64

\* write_phone that latches the phone and leaves the commit to a later time
write_phone_latch_only(s, phone) == [s EXCEPT !.phone = Mask6(phone)]

\* write_phone restarting the pitch counter as well
write_phone_restarting_pitch(s, phone) ==
    [phone_commit([s EXCEPT !.phone = Mask6(phone)]) EXCEPT !.pitch = 0]

write_phone(s, phone) == phone_commit([s EXCEPT !.phone = Mask6(phone)])

\* the duration without the final sub-tick
get_phoneme_duration_samples_no_tick(s) == 32 * (s.rom_duration * 4)

get_phoneme_duration_samples(s) == 32 * ((s.rom_duration * 4) + 1)

(***************************************************************************)
(* VotraxSC01A.interpolate and chip_update                                 *)
(***************************************************************************)
\* interpolate with the target not doubled
interpolateSlowDecay(reg, target) == (reg - Shr(reg, 4)) + Shl(target, 1)

interpolateSingleTarget(reg, target) == (reg - Shr(reg, 3)) + target

interpolate(reg, target) == (reg - Shr(reg, 3)) + Shl(target, 1)

\* PhonemeAdvance without the test of ticks against 0x10
PhonemeAdvanceNoFreeze(s) ==
    IF s.phonetick + 1 = BitOr(Shl(s.rom_duration, 2), 1)
    THEN [s EXCEPT
            !.phonetick   = 0,
            !.ticks       = @ + 1,
            !.cur_closure = IF s.ticks + 1 = s.rom_cld
                            THEN (s.rom_closure # 0) ELSE @]
    ELSE [s EXCEPT !.phonetick = @ + 1]

PhonemeAdvanceClosureEveryTick(s) ==
    IF s.ticks # 16
    THEN IF s.phonetick + 1 = BitOr(Shl(s.rom_duration, 2), 1)
         THEN [s EXCEPT
                 !.phonetick   = 0,
                 !.ticks       = @ + 1,
                 !.cur_closure = (s.rom_closure # 0)]
         ELSE [s EXCEPT !.phonetick = @ + 1]
    ELSE s

\* PhonemeAdvance with the phoneme tick every 4 * rom_duration chip updates
PhonemeAdvanceWithoutOne(s) ==
    IF s.ticks # 16
    THEN IF s.phonetick + 1 = Shl(s.rom_duration, 2)
         THEN [s EXCEPT
                 !.phonetick   = 0,
                 !.ticks       = @ + 1,
                 !.cur_closure = IF s.ticks + 1 = s.rom_cld
                                 THEN (s.rom_closure # 0) ELSE @]
         ELSE [s EXCEPT !.phonetick = @ + 1]
    ELSE s

\* lines 382-388: the phoneme tick counters
PhonemeAdvance(s) ==
    IF s.ticks # 16
    THEN IF s.phonetick + 1 = BitOr(Shl(s.rom_duration, 2), 1)
         THEN [s EXCEPT
                 !.phonetick   = 0,
                 !.ticks       = @ + 1,
                 !.cur_closure = IF s.ticks + 1 = s.rom_cld
                                 THEN (s.rom_closure # 0) ELSE @]
         ELSE [s EXCEPT !.phonetick = @ + 1]
    ELSE s

UpdateCounterPowerOfTwo(s) ==
    [s EXCEPT !.update_counter = IF @ + 1 = 64 THEN 0 ELSE @ + 1]

\* lines 390-392
UpdateCounter(s) ==
    [s EXCEPT !.update_counter = IF @ + 1 = 48 THEN 0 ELSE @ + 1]

tick_625(s) == BitAnd(s.update_counter, 15) = 0

tick_208(s) == s.update_counter = 40

\* FormantInterpolation without the pause test
FormantInterpolationNoPause(s) ==
    IF tick_208(s)
    THEN [s EXCEPT
            !.cur_fc  = interpolate(@, s.rom_fc),
            !.cur_f1  = interpolate(@, s.rom_f1),
            !.cur_f2  = interpolate(@, s.rom_f2),
            !.cur_f2q = interpolate(@, s.rom_f2q),
            !.cur_f3  = interpolate(@, s.rom_f3)]
    ELSE s

\* lines 397-402: the formant registers move on tick_208
FormantInterpolation(s) ==
    IF tick_208(s) /\ (~s.rom_pause \/ (s.filt_fa # 0 \/ s.filt_va # 0))
    THEN [s EXCEPT
            !.cur_fc  = interpolate(@, s.rom_fc),
            !.cur_f1  = interpolate(@, s.rom_f1),
            !.cur_f2  = interpolate(@, s.rom_f2),
            !.cur_f2q = interpolate(@, s.rom_f2q),
            !.cur_f3  = interpolate(@, s.rom_f3)]
    ELSE s

AmplitudeInterpolationUngated(s) ==
    IF tick_625(s)
    THEN [s EXCEPT !.cur_fa = interpolate(@, s.rom_fa),
                   !.cur_va = interpolate(@, s.rom_va)]
    ELSE s

\* lines 404-408: the amplitude registers move on tick_625
AmplitudeInterpolation(s) ==
    IF tick_625(s)
    THEN [s EXCEPT
            !.cur_fa = IF s.ticks >= s.rom_vd THEN interpolate(@, s.rom_fa) ELSE @,
            !.cur_va = IF s.ticks >= s.rom_cld THEN interpolate(@, s.rom_va) ELSE @]
    ELSE s

ClosureRampUncapped(s) ==
    IF ~s.cur_closure /\ (s.filt_fa # 0 \/ s.filt_va # 0)
    THEN [s EXCEPT !.closure = 0]
    ELSE [s EXCEPT !.closure = @ + 1]

\* lines 410-413
ClosureRamp(s) ==
    IF ~s.cur_closure /\ (s.filt_fa # 0 \/ s.filt_va # 0)
    THEN [s EXCEPT !.closure = 0]
    ELSE IF s.closure # Shl(7, 2)
         THEN [s EXCEPT !.closure = @ + 1]
         ELSE s

\* target_pitch without the 0xE0 of line 416
target_pitch_without_base(s) ==
    BitXor(Shl(s.inflection, 5), Shl(s.filt_f1, 1)) + 2

target_pitch(s) ==
    BitXor(BitXor(224, Shl(s.inflection, 5)), Shl(s.filt_f1, 1)) + 2

\* lines 415-419
PitchCounter(s) ==
    LET p == BitAnd(s.pitch + 1, 255) IN
    [s EXCEPT !.pitch = IF p = target_pitch(s) THEN 0 ELSE p]

\* lines 421-422
RoutineCommitAlways(s) == filters_commit(s, FALSE)

RoutineCommitNever(s) == s

RoutineCommit(s) ==
    IF BitAnd(s.pitch, 249) = 8 THEN filters_commit(s, FALSE) ELSE s

\* NoiseStep with the feedback taken from bit 14 alone
NoiseStepOneTap(s) ==
    LET inp_bit == IF s.cur_noise /\ s.noise # 32767 THEN 1 ELSE 0
        noise   == BitOr(BitAnd(Shl(s.noise, 1), 32766), inp_bit)
        bit_xor == BitAnd(Shr(noise, 14), 1)
    IN [s EXCEPT !.noise = noise, !.cur_noise = (bit_xor = 0)]

\* NoiseStep with the feedback not negated
NoiseStepNoNegation(s) ==
    LET inp_bit == IF s.cur_noise /\ s.noise # 32767 THEN 1 ELSE 0
        noise   == BitOr(BitAnd(Shl(s.noise, 1), 32766), inp_bit)
        bit_xor == BitAnd(BitXor(Shr(noise, 14), Shr(noise, 13)), 1)
    IN [s EXCEPT !.noise = noise, !.cur_noise = (bit_xor # 0)]

\* NoiseStep with the input bit gated by filt_fa
NoiseStepGatedByFa(s) ==
    LET inp_bit == IF s.filt_fa # 0 /\ s.cur_noise /\ s.noise # 32767 THEN 1 ELSE 0
        noise   == BitOr(BitAnd(Shl(s.noise, 1), 32766), inp_bit)
        bit_xor == BitAnd(BitXor(Shr(noise, 14), Shr(noise, 13)), 1)
    IN [s EXCEPT !.noise = noise, !.cur_noise = (bit_xor = 0)]

\* lines 430-435: the noise shift register
NoiseStep(s) ==
    LET inp_bit == IF s.cur_noise /\ s.noise # 32767 THEN 1 ELSE 0
        noise   == BitOr(BitAnd(Shl(s.noise, 1), 32766), inp_bit)
        bit_xor == BitAnd(BitXor(Shr(noise, 14), Shr(noise, 13)), 1)
    IN [s EXCEPT !.noise = noise, !.cur_noise = (bit_xor = 0)]

chip_update(s) ==
    NoiseStep(RoutineCommit(PitchCounter(ClosureRamp(
        AmplitudeInterpolation(FormantInterpolation(UpdateCounter(
            PhonemeAdvance(s))))))))

(***************************************************************************)
(* VotraxSC01A.shift_hist, apply_filter, analog_calc                       *)
(***************************************************************************)
\* S_GLOTTAL_WAVE in sevenths
S_GLOTTAL_WAVE == <<0, -4, 7, 6, 5, 4, 3, 2, 1>>

shift_hist(val, hist) == <<val, hist[1], hist[2], hist[3]>>

\* v * k / c for a float v, an integer k and a float constant c: zero from a
\* zero v; from any other v it is not followed (k = 0 makes it zero only if v
\* is finite)
Times(v, k) == IF v = Zero THEN Zero ELSE Float

\* v + w
Plus(v, w) == IF v = Zero /\ w = Zero THEN Zero ELSE Float

\* ((x . a) - (y[0..2] . b[1..3])) / b[0]: zero from zero histories and a
\* nonzero b[0]; 0/0 (b[0] never written) is NaN
apply_filter(x, y, a, b) ==
    IF /\ b[1] # Num(0)
       /\ \A i \in 1..4 : x[i] = Zero
       /\ \A i \in 1..3 : y[i] = Zero
    THEN Zero
    ELSE Float

\* the glottal wave without the initial amplifier
voice_source_unscaled(s) ==
    LET pitch_idx == Shr(s.pitch, 3)
        wave      == IF pitch_idx < 9 THEN S_GLOTTAL_WAVE[pitch_idx + 1] ELSE 0
    IN IF wave = 0 THEN Zero ELSE Float

\* lines 456-463: the glottal wave at pitch >> 3, times filt_va / 15.0
voice_source(s) ==
    LET pitch_idx == Shr(s.pitch, 3)
        wave      == IF pitch_idx < 9 THEN S_GLOTTAL_WAVE[pitch_idx + 1] ELSE 0
    IN IF wave = 0 \/ s.filt_va = 0 THEN Zero ELSE Float

\* lines 477-483: +-10000.0 times filt_fa / 15.0
noise_source(s) == IF s.filt_fa = 0 THEN Zero ELSE Float

\* the instance after analog_calc; the value returned is 0.35 * vn_6[0]
analog_calc(s) ==
    LET v0        == voice_source(s)
        voice_1   == shift_hist(v0, s.voice_1)
        v1        == apply_filter(voice_1, s.voice_2, s.f1_a, s.f1_b)
        voice_2   == shift_hist(v1, s.voice_2)
        v2        == apply_filter(voice_2, s.voice_3, s.f2v_a, s.f2v_b)
        voice_3   == shift_hist(v2, s.voice_3)
        n0        == noise_source(s)
        noise_1   == shift_hist(n0, s.noise_1)
        n1        == apply_filter(noise_1, s.noise_2, s.fn_a, s.fn_b)
        noise_2   == shift_hist(n1, s.noise_2)
        n2        == Times(n1, s.filt_fc)
        noise_3   == shift_hist(n2, s.noise_3)
        n3        == apply_filter(noise_3, s.noise_4, s.f2n_a, s.f2n_b)
        noise_4   == shift_hist(n3, s.noise_4)
        vn0       == Plus(v2, n3)
        vn_1      == shift_hist(vn0, s.vn_1)
        vn1       == apply_filter(vn_1, s.vn_2, s.f3_a, s.f3_b)
        vn_2      == shift_hist(vn1, s.vn_2)
        vn2       == Plus(vn1, Times(n1, 5 + BitXor(15, s.filt_fc)))
        vn_3      == shift_hist(vn2, s.vn_3)
        vn3       == apply_filter(vn_3, s.vn_4, s.f4_a, s.f4_b)
        vn_4      == shift_hist(vn3, s.vn_4)
        vn4       == Times(vn3, BitXor(7, Shr(s.closure, 2)))
        vn_5      == shift_hist(vn4, s.vn_5)
        vn5       == apply_filter(vn_5, s.vn_6, s.fx_a, s.fx_b)
        vn_6      == shift_hist(vn5, s.vn_6)
    IN [s EXCEPT
            !.voice_1 = voice_1, !.voice_2 = voice_2, !.voice_3 = voice_3,
            !.noise_1 = noise_1, !.noise_2 = noise_2, !.noise_3 = noise_3,
            !.noise_4 = noise_4,
            !.vn_1 = vn_1, !.vn_2 = vn_2, !.vn_3 = vn_3, !.vn_4 = vn_4,
            !.vn_5 = vn_5, !.vn_6 = vn_6]

\* what analog_calc has just returned: vn * 0.35
returned(s) == Times(s.vn_6[1], 1)

(***************************************************************************)
(* VotraxSC01A.generate_samples                                            *)
(***************************************************************************)
\* one pass of the loop body with chip_update on the even counts
SampleEvenUpdate(s) ==
    LET s1 == [s EXCEPT !.sample_count = @ + 1] IN
    analog_calc(IF BitAnd(s1.sample_count, 1) = 0 THEN chip_update(s1) ELSE s1)

\* one pass of the loop body with chip_update on every count
SampleEveryUpdate(s) ==
    analog_calc(chip_update([s EXCEPT !.sample_count = @ + 1]))

\* one pass of the loop body with analog_calc ahead of chip_update
SampleAnalogFirst(s) ==
    LET s1 == analog_calc([s EXCEPT !.sample_count = @ + 1]) IN
    IF BitAnd(s1.sample_count, 1) # 0 THEN chip_update(s1) ELSE s1

\* one pass of the loop body
Sample(s) ==
    LET s1 == [s EXCEPT !.sample_count = @ + 1] IN
    analog_calc(IF BitAnd(s1.sample_count, 1) # 0 THEN chip_update(s1) ELSE s1)

\* the passes of the loop that take sample_count up to `stop', one pass
\* adding one to it: the passes up to the middle, then the rest.  [synth, out]:
\* the instance after them and the samples they stored
RECURSIVE SampleLoop(_, _)
SampleLoop(s, stop) ==
    IF s.sample_count >= stop THEN [synth |-> s, out |-> <<>>]
    ELSE IF s.sample_count + 1 = stop
         THEN LET t == Sample(s) IN [synth |-> t, out |-> <<returned(t)>>]
    ELSE LET first == SampleLoop(s, s.sample_count + ((stop - s.sample_count) \div 2))
             rest  == SampleLoop(first.synth, stop)
         IN [synth |-> rest.synth, out |-> first.out \o rest.out]

\* the loop with chip_update on the passes of even index i, whatever the
\* parity of sample_count at the call (`start')
RECURSIVE SampleLoopByIndex(_, _, _)
SampleLoopByIndex(s, stop, start) ==
    IF s.sample_count >= stop THEN [synth |-> s, out |-> <<>>]
    ELSE IF s.sample_count + 1 = stop
         THEN LET s1 == [s EXCEPT !.sample_count = @ + 1]
                  t  == analog_calc(IF (s.sample_count - start) % 2 = 0
                                    THEN chip_update(s1) ELSE s1)
              IN [synth |-> t, out |-> <<returned(t)>>]
    ELSE LET first == SampleLoopByIndex(s, s.sample_count + ((stop - s.sample_count) \div 2), start)
             rest  == SampleLoopByIndex(first.synth, stop, start)
         IN [synth |-> rest.synth, out |-> first.out \o rest.out]

generate_samples_by_index(s, count) ==
    SampleLoopByIndex(s, s.sample_count + count, s.sample_count)

\* [synth, out]: the instance after the loop over range(count) and the array
\* of samples returned
generate_samples(s, count) == SampleLoop(s, s.sample_count + count)

\* VotraxSC01A(rom_path): [err, synth]
New(f) ==
    LET l == load_rom(f) IN
    IF l.err # "none"
    THEN [err |-> l.err, synth |-> [mainclock |-> CLOCK_FREQ]]
    ELSE [err |-> "none",
          synth |-> reset([mainclock |-> CLOCK_FREQ, rom_data |-> l.rom_data])]

(***************************************************************************)
(* The calls a caller makes on the instance.                               *)
(***************************************************************************)
NoProbe == [reg |-> 0, target |-> 0, start |-> 0, n |-> 0]

\* no second instance
NoTwin == [synth |-> [mainclock |-> 0], buf |-> <<>>]

\* the state after VotraxSC01A(rom_path) with f the file at rom_path
Constructed(f) ==
    /\ rom_file = f
    /\ err = New(f).err
    /\ synth = New(f).synth
    /\ op = [name |-> "new", arg |-> 0]
    /\ writes = 0
    /\ seen = {}
    /\ probe = NoProbe
    /\ buf = <<>>
    /\ twin = NoTwin

DoReset ==
    /\ err = "none"
    /\ synth' = reset(synth)
    /\ op' = [name |-> "reset", arg |-> 0]
    /\ writes' = 0
    /\ UNCHANGED <<rom_file, err, seen, probe, buf, twin>>

\* write_phone(p) for a p of `inputs', at most `maxw' times and up to sample `last'
DoWritePhone(inputs, maxw, last) ==
    /\ err = "none"
    /\ writes < maxw
    /\ synth.sample_count <= last
    /\ \E p \in inputs :
        /\ synth' = write_phone(synth, p)
        /\ op' = [name |-> "write_phone", arg |-> p]
    /\ writes' = writes + 1
    /\ UNCHANGED <<rom_file, err, seen, probe, buf, twin>>

\* generate_samples(n) for an n of `counts', up to sample `maxs'
DoGenerate(counts, maxs) ==
    /\ err = "none"
    /\ \E n \in counts :
        /\ synth.sample_count + n <= maxs
        /\ LET r == generate_samples(synth, n) IN
             synth' = r.synth /\ buf' = r.out
        /\ op' = [name |-> "generate_samples", arg |-> n]
    /\ UNCHANGED <<rom_file, err, writes, seen, probe, twin>>

(***************************************************************************)
(* Spec: construction from any of the ROM files, then reset, write_phone   *)
(* (arguments in and out of range) and generate_samples in any order.      *)
(***************************************************************************)
MaxSamples == 40

MaxCount == 2

MaxWrites == 2

Files == {NoFile, File("good"), File("holes"), File("long"), File("short")}

\* phone arguments: in range, and beyond 6 bits (67 & 0x3F = 3, -1 & 0x3F = 63)
PhoneInputs == {0, 31, 67, -1}

Init == \E f \in Files : Constructed(f)

Reset == DoReset

WritePhone == DoWritePhone(PhoneInputs, MaxWrites, MaxSamples)

GenerateSamples == DoGenerate(0..MaxCount, MaxSamples)

Next == Reset \/ WritePhone \/ GenerateSamples

Spec == Init /\ [][Next]_vars

(***************************************************************************)
(* SpecRun: the well-formed ROM over a longer stretch of samples, one      *)
(* sample or one chip update per step.                                     *)
(***************************************************************************)
MaxRunSamples == 180

MaxRunWrites == 1

\* EH3, PA0, S, PA1
RunPhones == {0, 3, 31, 62}

RunInit == Constructed(File("good"))

RunWritePhone == DoWritePhone(RunPhones, MaxRunWrites, MaxRunSamples)

RunGenerate == DoGenerate({1, 2}, MaxRunSamples)

RunNext == RunWritePhone \/ RunGenerate

SpecRun == RunInit /\ [][RunNext]_vars

(***************************************************************************)
(* SpecLfsr: one chip update per step, through the whole period of the     *)
(* noise register; write_phone may come in during the first samples.       *)
(***************************************************************************)
MaxLfsrSamples == 65540

MaxLfsrWrites == 1

LastLfsrWrite == 40

LfsrInit == Constructed(File("good"))

LfsrWritePhone == DoWritePhone({0, 31, 67}, MaxLfsrWrites, LastLfsrWrite)

LfsrGenerate == DoGenerate({2}, MaxLfsrSamples)

LfsrNext == LfsrWritePhone \/ LfsrGenerate

SpecLfsr == LfsrInit /\ [][LfsrNext]_vars

(***************************************************************************)
(* SpecOrbit: from reset, generate_samples in calls of 2 samples (one chip *)
(* update) or, back to back from reset, in calls of 2^9 samples (2^8 chip  *)
(* updates), recording the value every chip update leaves in the noise     *)
(* register.                                                               *)
(***************************************************************************)
MaxOrbitUpdates == 16400

OrbitBatch == 2 ^ 8

\* the values the k chip updates of the next 2k samples leave in noise, one
\* after the other
RECURSIVE NoiseValues(_, _)
NoiseValues(s, k) ==
    IF k = 0 THEN {}
    ELSE IF k = 1 THEN {generate_samples(s, 2).synth.noise}
    ELSE NoiseValues(s, k \div 2)
         \cup NoiseValues(generate_samples(s, 2 * (k \div 2)).synth, k - (k \div 2))

OrbitInit == Constructed(NoFile)

OrbitUpdate ==
    \E k \in {1, OrbitBatch} :
        /\ synth.sample_count % (2 * k) = 0
        /\ synth.sample_count + 2 * k <= 2 * MaxOrbitUpdates
        /\ LET r == generate_samples(synth, 2 * k) IN
             synth' = r.synth /\ buf' = r.out
        /\ op' = [name |-> "generate_samples", arg |-> 2 * k]
        /\ seen' = seen \cup NoiseValues(synth, k)
        /\ UNCHANGED <<rom_file, err, writes, probe, twin>>

OrbitNext == OrbitUpdate

SpecOrbit == OrbitInit /\ [][OrbitNext]_vars

(***************************************************************************)
(* SpecInterp: interpolate applied again and again to a register, from     *)
(* every 8-bit start value and every 4-bit target.                         *)
(***************************************************************************)
MaxApply == 66

InterpInit ==
    /\ rom_file = NoFile
    /\ err = New(NoFile).err
    /\ synth = New(NoFile).synth
    /\ op = [name |-> "new", arg |-> 0]
    /\ writes = 0
    /\ seen = {}
    /\ buf = <<>>
    /\ twin = NoTwin
    /\ \E r \in 0..255, t \in 0..15 :
        probe = [reg |-> r, target |-> t, start |-> r, n |-> 0]

InterpApply ==
    /\ probe.n < MaxApply
    /\ probe' = [probe EXCEPT !.reg = interpolate(@, probe.target), !.n = @ + 1]
    /\ UNCHANGED <<rom_file, err, synth, op, writes, seen, buf, twin>>

InterpNext == InterpApply

SpecInterp == InterpInit /\ [][InterpNext]_vars

(***************************************************************************)
(* SpecTwin: two instances built from the same ROM file.  Each is first    *)
(* driven on its own, then both are reset and receive the same calls.      *)
(* twin.joint: both have been reset together; twin.apart: they differed    *)
(* when that happened; twin.past: the calls they received on their own.    *)
(***************************************************************************)
MaxTwinPast == 2

MaxTwinSamples == 520

MaxTwinWrites == 1

LastTwinWrite == 0

\* EH3 (voiced) and S (fricative)
TwinPhones == {0, 31}

TwinPastBatch == 2 ^ 9

TwinBatch == 2 ^ 8

TwinInit ==
    /\ rom_file = File("good")
    /\ err = New(rom_file).err
    /\ synth = New(rom_file).synth
    /\ twin = [synth |-> New(rom_file).synth, buf |-> <<>>, joint |-> FALSE,
               apart |-> FALSE, past |-> 0]
    /\ op = [name |-> "new", arg |-> 0]
    /\ writes = 0
    /\ seen = {}
    /\ probe = NoProbe
    /\ buf = <<>>

TwinFirstWrite ==
    /\ ~twin.joint /\ twin.past < MaxTwinPast
    /\ \E p \in TwinPhones :
        /\ synth' = write_phone(synth, p)
        /\ op' = [name |-> "write_phone", arg |-> p]
    /\ twin' = [twin EXCEPT !.past = @ + 1]
    /\ UNCHANGED <<rom_file, err, writes, seen, probe, buf>>

TwinFirstGenerate ==
    /\ ~twin.joint /\ twin.past < MaxTwinPast
    /\ \E n \in {1, TwinPastBatch} :
        /\ LET r == generate_samples(synth, n) IN
             synth' = r.synth /\ buf' = r.out
        /\ op' = [name |-> "generate_samples", arg |-> n]
    /\ twin' = [twin EXCEPT !.past = @ + 1]
    /\ UNCHANGED <<rom_file, err, writes, seen, probe>>

TwinSecondWrite ==
    /\ ~twin.joint /\ twin.past < MaxTwinPast
    /\ \E p \in TwinPhones :
        twin' = [twin EXCEPT !.synth = write_phone(@, p), !.past = @ + 1]
    /\ UNCHANGED <<rom_file, err, synth, op, writes, seen, probe, buf>>

TwinSecondGenerate ==
    /\ ~twin.joint /\ twin.past < MaxTwinPast
    /\ \E n \in {1, TwinPastBatch} :
        LET r == generate_samples(twin.synth, n) IN
        twin' = [twin EXCEPT !.synth = r.synth, !.buf = r.out, !.past = @ + 1]
    /\ UNCHANGED <<rom_file, err, synth, op, writes, seen, probe, buf>>

\* reset() on both
TwinReset ==
    /\ ~twin.joint
    /\ synth' = reset(synth)
    /\ twin' = [twin EXCEPT !.synth = reset(@), !.joint = TRUE,
                            !.apart = (twin.synth # synth), !.past = 0]
    /\ op' = [name |-> "reset", arg |-> 0]
    /\ writes' = 0
    /\ UNCHANGED <<rom_file, err, seen, probe, buf>>

\* the same write_phone(p) on both
TwinWritePhone ==
    /\ twin.joint
    /\ writes < MaxTwinWrites
    /\ synth.sample_count <= LastTwinWrite
    /\ \E p \in TwinPhones :
        /\ synth' = write_phone(synth, p)
        /\ twin' = [twin EXCEPT !.synth = write_phone(@, p)]
        /\ op' = [name |-> "write_phone", arg |-> p]
    /\ writes' = writes + 1
    /\ UNCHANGED <<rom_file, err, seen, probe, buf>>

\* the same generate_samples(n) on both
TwinGenerate ==
    /\ twin.joint
    /\ \E n \in {1, TwinBatch} :
        /\ synth.sample_count % n = 0
        /\ synth.sample_count + n <= MaxTwinSamples
        /\ LET r == generate_samples(synth, n)
               t == generate_samples(twin.synth, n)
           IN /\ synth' = r.synth /\ buf' = r.out
              /\ twin' = [twin EXCEPT !.synth = t.synth, !.buf = t.out]
        /\ op' = [name |-> "generate_samples", arg |-> n]
    /\ UNCHANGED <<rom_file, err, writes, seen, probe>>

TwinNext ==
    \/ TwinFirstWrite \/ TwinFirstGenerate
    \/ TwinSecondWrite \/ TwinSecondGenerate
    \/ TwinReset \/ TwinWritePhone \/ TwinGenerate

SpecTwin == TwinInit /\ [][TwinNext]_vars

(***************************************************************************)
(* SpecPitch: a phone written at reset, then generate_samples two samples  *)
(* at a time, counting over the samples generated while target_pitch stays *)
(* the same: probe.n samples, probe.resets times pitch was set to 0 on     *)
(* reaching probe.tp, probe.zeros times pitch came to 0 at all.  seen holds *)
(* the ticks of the latest TickWindow chip updates.  twin is an instance    *)
(* constructed without ROM file that receives the same generate_samples    *)
(* calls and no write_phone.                                               *)
(***************************************************************************)
MaxPitchSamples == 20000

MaxPitchWrites == 1

\* the window of samples the wraps are counted over
PitchWindow == 10 ^ 4

\* lines 415-419 between s and the instance t one sample later: the pitch
\* counter moved and the value it moved to was target_pitch
PitchReset(s, t) ==
    t.pitch # s.pitch /\ BitAnd(s.pitch + 1, 255) = target_pitch(s)

\* the pitch counter moved to 0
PitchZero(s, t) == t.pitch # s.pitch /\ t.pitch = 0

\* target_pitch as the chip_update of the sample from s to t computed it
UsedTarget(s, t) == IF t.pitch # s.pitch THEN target_pitch(s) ELSE target_pitch(t)

\* the counts after the sample from s to t; they stand once the window is full
Counted(p, s, t) ==
    LET tp == UsedTarget(s, t)
        q  == IF tp = p.tp THEN p ELSE [n |-> 0, resets |-> 0, zeros |-> 0, tp |-> tp]
    IN IF q.n >= PitchWindow THEN q
       ELSE [q EXCEPT !.n = @ + 1,
                      !.resets = @ + (IF PitchReset(s, t) THEN 1 ELSE 0),
                      !.zeros = @ + (IF PitchZero(s, t) THEN 1 ELSE 0)]

\* the length of update_counter's cycle, 0x30 chip updates (line 391)
TickWindow == 48

\* lines 394-395: the two ticks as the chip update that led to s computed them
Ticks(s) == [tick_625 |-> tick_625(s), tick_208 |-> tick_208(s)]

\* the ticks of the latest TickWindow chip updates, after one more
Latest(w, e) == IF Len(w) < TickWindow THEN Append(w, e) ELSE Append(Tail(w), e)

PitchInit ==
    /\ \E f \in {File("good"), File("holes")} :
        /\ rom_file = f
        /\ err = New(f).err
        /\ synth = New(f).synth
        /\ probe = [n |-> 0, resets |-> 0, zeros |-> 0, tp |-> target_pitch(New(f).synth)]
    /\ op = [name |-> "new", arg |-> 0]
    /\ writes = 0
    /\ seen = <<>>
    /\ buf = <<>>
    /\ twin = [synth |-> New(NoFile).synth, buf |-> <<>>]

\* EH3 (f1 = 8), or f1 = 15 from the ROM with a duplicated code
PitchWritePhone == DoWritePhone({0}, MaxPitchWrites, 0)

PitchGenerate ==
    /\ probe.n < PitchWindow
    /\ synth.sample_count + 2 <= MaxPitchSamples
    /\ LET r   == generate_samples(synth, 2)
           mid == generate_samples(synth, 1).synth
           t   == generate_samples(twin.synth, 2)
       IN /\ synth' = r.synth
          /\ twin' = [synth |-> t.synth, buf |-> t.out]
          /\ buf' = r.out
          /\ probe' = Counted(Counted(probe, synth, mid), mid, r.synth)
          /\ seen' = Latest(seen, Ticks(mid))
    /\ op' = [name |-> "generate_samples", arg |-> 2]
    /\ UNCHANGED <<rom_file, err, writes>>

PitchNext == PitchWritePhone \/ PitchGenerate

SpecPitch == PitchInit /\ [][PitchNext]_vars

(***************************************************************************)
(* SpecSwap: bitswap applied to a 64-bit word and a list of bit positions. *)
(* The words carry every pattern on six positions, over a background of    *)
(* zeros or of ones; the lists are all those of up to MaxSwapLen of the    *)
(* six positions, repeated ones included, and the list phone_commit uses   *)
(* for rom_f1.                                                             *)
(***************************************************************************)
MaxSwapLen == 3

SwapPositions == <<0, 7, 14, 21, 36, 63>>

\* the word with bit j of v at SwapPositions[j + 1] and g everywhere else
SwapWord(v, g) ==
    [p \in 0..63 |->
        IF \E j \in 1..6 : SwapPositions[j] = p
        THEN Shr(v, (CHOOSE j \in 1..6 : SwapPositions[j] = p) - 1) % 2
        ELSE g]

SwapLists ==
    {<<0, 7, 14, 21>>} \cup
    UNION {[1..k -> {SwapPositions[j] : j \in 1..6}] : k \in 1..MaxSwapLen}

SwapInit ==
    /\ rom_file = NoFile
    /\ err = New(NoFile).err
    /\ synth = New(NoFile).synth
    /\ op = [name |-> "new", arg |-> 0]
    /\ writes = 0
    /\ seen = {}
    /\ buf = <<>>
    /\ twin = NoTwin
    /\ \E v \in 0..63, g \in {0, 1}, bits \in SwapLists :
        probe = [val |-> SwapWord(v, g), bits |-> bits, res |-> 0, done |-> FALSE]

SwapApply ==
    /\ ~probe.done
    /\ probe' = [probe EXCEPT !.res = bitswap(probe.val, probe.bits), !.done = TRUE]
    /\ op' = [name |-> "bitswap", arg |-> 0]
    /\ UNCHANGED <<rom_file, err, synth, writes, seen, buf, twin>>

SwapNext == SwapApply

SpecSwap == SwapInit /\ [][SwapNext]_vars

(***************************************************************************)
(* SpecPerm: the lookup of phone_commit in a ROM that holds the 64 entries *)
(* of the well-formed ROM in another order: rotated, or with two entries   *)
(* exchanged.                                                              *)
(***************************************************************************)
\* the entries moved up by r places, the last r coming first
Rotation(r) == [i \in 1..64 |-> ((i - 1 + r) % 64)]

\* entries i and j exchanged
Exchange(i, j) ==
    [k \in 1..64 |-> IF k - 1 = i THEN j ELSE IF k - 1 = j THEN i ELSE k - 1]

\* the first, a middle and the last entries against every other
Orders ==
    {Rotation(r) : r \in 0..63} \cup
    {Exchange(i, j) : i \in {0, 26, 32, 63}, j \in 0..63}

\* the phones of the entries with data (EH3, PA0, S, P, PA1, STOP) and a bare one
PermPhones == {0, 3, 31, 37, 62, 63, 17}

PermInit ==
    /\ rom_file = File("good")
    /\ err = New(rom_file).err
    /\ synth = New(rom_file).synth
    /\ op = [name |-> "new", arg |-> 0]
    /\ writes = 0
    /\ seen = {}
    /\ buf = <<>>
    /\ twin = NoTwin
    /\ \E order \in Orders, phone \in PermPhones :
        probe = [rom_data |-> [content |-> "good", len |-> RomSize, order |-> order],
                 phone |-> phone, val |-> WordZero, done |-> FALSE]

PermLookup ==
    /\ ~probe.done
    /\ probe' = [probe EXCEPT !.val = RomLookup(probe.rom_data, probe.phone),
                              !.done = TRUE]
    /\ op' = [name |-> "phone_commit", arg |-> probe.phone]
    /\ UNCHANGED <<rom_file, err, synth, writes, seen, buf, twin>>

PermNext == PermLookup

SpecPerm == PermInit /\ [][PermNext]_vars

(***************************************************************************)
(* SpecDriver: the synthesis loop of __main__ (lines 572-583): for each     *)
(* phoneme write_phone, then get_phoneme_duration_samples, then            *)
(* generate_samples of that many samples.  probe.start is sample_count at  *)
(* the last write_phone and probe.n the duration it was followed by; the   *)
(* samples of the generate_samples call are taken one state at a time.     *)
(***************************************************************************)
MaxDriverPhones == 3

\* EH3 and PA0; phone 0 is the long DUP0 in the ROM with a duplicated code
DriverPhones == {0, 3, 62}

DriverInit ==
    /\ \E f \in {File("good"), File("holes")} :
        /\ rom_file = f
        /\ err = New(f).err
        /\ synth = New(f).synth
    /\ op = [name |-> "new", arg |-> 0]
    /\ writes = 0
    /\ seen = {}
    /\ probe = [start |-> 0, n |-> 0]
    /\ buf = <<>>
    /\ twin = NoTwin

\* lines 574-579: the next phoneme, once the samples of the last are generated
DriverWritePhone ==
    /\ writes < MaxDriverPhones
    /\ synth.sample_count = probe.start + probe.n
    /\ \E p \in DriverPhones :
        /\ synth' = write_phone(synth, p)
        /\ op' = [name |-> "write_phone", arg |-> p]
    /\ probe' = [start |-> synth.sample_count,
                 n     |-> get_phoneme_duration_samples(synth')]
    /\ writes' = writes + 1
    /\ UNCHANGED <<rom_file, err, seen, buf, twin>>

\* lines 582-583: generate_samples(num_samples), its next sample
DriverGenerate ==
    /\ synth.sample_count < probe.start + probe.n
    /\ LET r == generate_samples(synth, 1) IN synth' = r.synth /\ buf' = r.out
    /\ op' = [name |-> "generate_samples", arg |-> probe.n]
    /\ UNCHANGED <<rom_file, err, writes, seen, probe, twin>>

DriverNext == DriverWritePhone \/ DriverGenerate

SpecDriver == DriverInit /\ [][DriverNext]_vars

(***************************************************************************)
(* SpecInflect: runs under each 2-bit value of the inflection attribute,   *)
(* assigned by the caller after construction, two samples (one chip        *)
(* update) at a time.  probe.gap counts the chip updates since the last    *)
(* one whose pitch called for the routine filters_commit (lines 421-422).  *)
(***************************************************************************)
MaxInflectSamples == 6000

MaxInflectWrites == 1

InflectInit ==
    /\ rom_file = File("holes")
    /\ err = New(rom_file).err
    /\ \E i \in 0..3 : synth = [New(rom_file).synth EXCEPT !.inflection = i]
    /\ op = [name |-> "new", arg |-> 0]
    /\ writes = 0
    /\ seen = {}
    /\ probe = [gap |-> 0]
    /\ buf = <<>>
    /\ twin = NoTwin

\* phone 0 (f1 = 15) in place of STOP (f1 = 4)
InflectWritePhone == DoWritePhone({0}, MaxInflectWrites, 0)

InflectGenerate ==
    /\ synth.sample_count + 2 <= MaxInflectSamples
    /\ LET r == generate_samples(synth, 2)
       IN /\ synth' = r.synth
          /\ buf' = r.out
          /\ probe' = [gap |-> IF BitAnd(r.synth.pitch, 249) = 8 THEN 0
                               ELSE probe.gap + 1]
    /\ op' = [name |-> "generate_samples", arg |-> 2]
    /\ UNCHANGED <<rom_file, err, writes, seen, twin>>

InflectNext == InflectWritePhone \/ InflectGenerate

SpecInflect == InflectInit /\ [][InflectNext]_vars

(***************************************************************************)
(* SpecGui: the application window of votrax_gui.py around the shared      *)
(* synthesizer.  probe holds the application's fields: is_generating,      *)
(* stop_requested, the number of pending self.after callbacks and the      *)
(* worker threads started by the clicks, each with the statement it is at  *)
(* (`at'), its place in the phoneme list (`i') and whether generate_audio  *)
(* returned samples (`audio').  Clicks and timer callbacks run on the main *)
(* thread, one at a time; a worker advances one call at a time, so the     *)
(* calls of two workers on the synthesizer interleave call by call.  The   *)
(* sound device (winsound) is outside the state.                           *)
(***************************************************************************)
MaxThreads == 2

MaxAfter == 2

\* get_phonemes_from_input: the indices typed in the window
GuiPhonemes == <<0, 3>>

NoThread == [task |-> "none", at |-> "none", i |-> 0, audio |-> FALSE]

Started(task, at) == [task |-> task, at |-> at, i |-> 0, audio |-> FALSE]

Free(a) == {t \in 1..MaxThreads : a.threads[t].task = "none"}

\* threading.Thread(target=task, daemon=True).start()
Start(a, th) ==
    LET t == CHOOSE u \in Free(a) : \A v \in Free(a) : u <= v
    IN [a EXCEPT !.threads[t] = th]

GuiInit ==
    /\ rom_file = File("good")
    /\ err = New(rom_file).err
    /\ synth = New(rom_file).synth
    /\ op = [name |-> "new", arg |-> 0]
    /\ writes = 0
    /\ seen = {}
    /\ probe = [is_generating |-> FALSE, stop_requested |-> FALSE,
                after |-> 0, threads |-> [t \in 1..MaxThreads |-> NoThread]]
    /\ buf = <<>>
    /\ twin = NoTwin

set_loading(a, busy) == [a EXCEPT !.is_generating = busy]

reset_ui_state(a) ==
    [a EXCEPT !.is_generating = FALSE, !.stop_requested = FALSE]

reset_ui_state_if_playing(a) ==
    IF a.is_generating /\ ~a.stop_requested THEN reset_ui_state(a) ELSE a

\* a click on the play button
on_play ==
    /\ IF probe.is_generating
         THEN probe' = [probe EXCEPT !.stop_requested = TRUE]
         ELSE /\ Free(probe) # {}
              /\ probe' = Start([probe EXCEPT !.stop_requested = FALSE,
                                              !.is_generating = TRUE],
                                Started("play", "generate_audio"))
    /\ op' = [name |-> "on_play", arg |-> 0]
    /\ UNCHANGED <<rom_file, err, synth, writes, seen, buf, twin>>

\* a click on the save button; `path' tells whether the file dialog gave one
on_save ==
    /\ \E path \in BOOLEAN :
          IF probe.is_generating \/ ~path
            THEN probe' = probe
            ELSE /\ Free(probe) # {}
                 /\ probe' = Start(probe, Started("save", "set_loading"))
    /\ op' = [name |-> "on_save", arg |-> 0]
    /\ UNCHANGED <<rom_file, err, synth, writes, seen, buf, twin>>

\* the thread is over
Ended(a, t) == [a EXCEPT !.threads[t] = NoThread]

At(a, t, at) == [a EXCEPT !.threads[t].at = at]

\* worker t is inside the loop of generate_audio and goes on with it
Synthesizing(a, t) ==
    /\ a.threads[t].at = "loop"
    /\ a.threads[t].i < Len(GuiPhonemes)
    /\ ~a.stop_requested

\* what the next call of worker t does to the application's fields
task_fields(a, t) ==
    LET th == a.threads[t] IN
    CASE th.at = "set_loading" -> At(set_loading(a, TRUE), t, "generate_audio")
      [] th.at = "generate_audio" -> At(a, t, "loop")
      [] th.at = "loop" ->
            IF Synthesizing(a, t)
              THEN [a EXCEPT !.threads[t].i = th.i + 1]
              ELSE [a EXCEPT !.threads[t].at = "returned",
                             !.threads[t].audio = th.i >= Len(GuiPhonemes)]
      [] th.at = "returned" /\ th.task = "save" -> At(a, t, "finally")
      [] th.at = "returned" /\ th.task = "play" ->
            IF a.stop_requested \/ ~th.audio
              THEN Ended(reset_ui_state(a), t)
              ELSE At(a, t, "PlaySound")
      [] th.at = "PlaySound" ->
            IF a.stop_requested
              THEN Ended(reset_ui_state(a), t)
              ELSE Ended([a EXCEPT !.after = @ + 1], t)
      [] th.at = "finally" -> Ended(set_loading(a, FALSE), t)
      [] OTHER -> a

\* what it does to the synthesizer: reset on entry of generate_audio, then
\* write_phone, the duration query and generate_samples for each phoneme
task_synthesizer(s, a, t) ==
    LET th == a.threads[t] IN
    IF th.at = "generate_audio" THEN reset(s)
    ELSE IF Synthesizing(a, t)
      THEN LET w == write_phone(s, GuiPhonemes[th.i + 1])
           IN generate_samples(w, get_phoneme_duration_samples(w)).synth
      ELSE s

\* worker t has a next call to make (the count of pending callbacks is capped)
Runnable(a, t) ==
    /\ a.threads[t].task # "none"
    /\ a.threads[t].at = "PlaySound" => (a.stop_requested \/ a.after < MaxAfter)

\* worker t is scheduled: the step as far as the application's fields go
Scheduled(t) ==
    /\ Runnable(probe, t)
    /\ probe' = task_fields(probe, t)

\* the next call of worker t: task() of on_play (lines 398-440) or of on_save
\* (lines 470-490) with the generate_audio it calls
task(t) ==
    /\ Scheduled(t)
    /\ synth' = task_synthesizer(synth, probe, t)
    /\ op' = [name |-> "task", arg |-> t]
    /\ UNCHANGED <<rom_file, err, writes, seen, buf, twin>>

\* a callback scheduled by self.after comes due
after ==
    /\ probe.after > 0
    /\ probe' = [reset_ui_state_if_playing(probe) EXCEPT !.after = @ - 1]
    /\ op' = [name |-> "after", arg |-> 0]
    /\ UNCHANGED <<rom_file, err, synth, writes, seen, buf, twin>>

GuiNext == on_play \/ on_save \/ (\E t \in 1..MaxThreads : task(t)) \/ after

SpecGui == GuiInit /\ [][GuiNext]_vars

\* every started thread is scheduled (each of its steps changes its entry
\* of probe), and the Tk main loop runs the callbacks that are due; nothing
\* makes the user click
SpecGuiFair ==
    /\ SpecGui
    /\ \A t \in 1..MaxThreads : WF_probe(Scheduled(t))
    /\ WF_vars(after)

(***************************************************************************)
(* Properties                                                              *)
(***************************************************************************)
Constructs == err = "none"

\* p & 0x3F from the bits of p (of -p - 1 for a negative p)
And6(p) == IF p >= 0 THEN BitAnd(p, 63) ELSE 63 - BitAnd((-p) - 1, 63)

\* the phone codes that some entry of the ROM carries in bits 56..61
Codes(rd) == {WordCode(Unpack(EntryBytes(rd, i))) : i \in 0..63}

GoodCodes == Codes([content |-> "good", len |-> RomSize])

HolesCodes == Codes([content |-> "holes", len |-> RomSize])

LongCodes == Codes([content |-> "long", len |-> RomSize])

ZeroCodes == Codes([content |-> "zeros", len |-> RomSize])

RomHasEntry(rd, phone) ==
    phone \in (CASE rd.content = "good"  -> GoodCodes
                 [] rd.content = "holes" -> HolesCodes
                 [] rd.content = "long"  -> LongCodes
                 [] rd.content = "zeros" -> ZeroCodes)

RomFields(s) ==
    [rom_f1 |-> s.rom_f1, rom_va |-> s.rom_va, rom_f2 |-> s.rom_f2,
     rom_fc |-> s.rom_fc, rom_f2q |-> s.rom_f2q, rom_f3 |-> s.rom_f3,
     rom_fa |-> s.rom_fa, rom_cld |-> s.rom_cld, rom_vd |-> s.rom_vd,
     rom_closure |-> s.rom_closure, rom_duration |-> s.rom_duration]

Formants(s) == <<s.cur_fc, s.cur_f1, s.cur_f2, s.cur_f2q, s.cur_f3>>

\* C1: ticks is always within 0..0x10, and once ticks equals 0x10 a
\* generate_samples call (its chip updates) leaves ticks, phonetick and
\* cur_closure as they are; only the next phone_commit moves them again.
C1_TicksFreeze ==
    /\ [](Constructs => synth.ticks \in 0..16)
    /\ [][(Constructs /\ synth.ticks = 16 /\ op'.name = "generate_samples")
            => /\ synth'.ticks = 16
               /\ synth'.phonetick = synth.phonetick
               /\ synth'.cur_closure = synth.cur_closure]_vars

\* ticks has reached 0x10 at sample 31 (no write_phone since construction,
\* STOP lasting 16 chip updates) and three more chip updates have run
C1_Frozen ==
    /\ Constructs
    /\ rom_file = File("good")
    /\ writes = 0
    /\ op.name = "generate_samples"
    /\ synth.ticks = 16
    /\ synth.sample_count = 37

\* C2: the 15-bit noise register never holds 0x7FFF.
C2_NoiseNeverAllOnes == Constructs => synth.noise \in 0..32766

\* a whole period of the register has run (32767 chip updates after the
\* first), with a write_phone on the way: the register is back at 0
C2_WholePeriod ==
    /\ Constructs
    /\ writes = 1
    /\ synth.sample_count = 2 * 32768
    /\ synth.noise = 0

\* C3: the values the first 2^14 chip updates after reset leave in the noise
\* register are pairwise distinct.
C3_OrbitDistinct ==
    (synth.sample_count \div 2) <= 2 ^ 14
        => Cardinality(seen) = synth.sample_count \div 2

\* 2^14 chip updates have run and left 2^14 distinct values
C3_LongOrbit ==
    /\ synth.sample_count = 2 * (2 ^ 14)
    /\ Cardinality(seen) = 2 ^ 14

\* C4 as stated: after 64 applications of interpolate with a constant target
\* the register is within 1 of 16 * target.
C4_WithinOne ==
    probe.n = 64 =>
        /\ probe.reg - (16 * probe.target) <= 1
        /\ (16 * probe.target) - probe.reg <= 1

\* C4 as amended: after 64 applications the register is within
\* 16 * target .. 16 * target + 7 (its top four bits are the target); it is
\* 16 * target exactly from a start not above it, and the start value itself,
\* or 16 * target + 7 if that is smaller, from a start above it.
C4_WithinSeven ==
    probe.n = 64 =>
        /\ probe.reg \in (16 * probe.target)..((16 * probe.target) + 7)
        /\ Shr(probe.reg, 4) = probe.target
        /\ probe.start <= 16 * probe.target => probe.reg = 16 * probe.target
        /\ probe.start > 16 * probe.target
             => probe.reg = Min(probe.start, (16 * probe.target) + 7)

\* from 255 towards target 15 the register stops at 16 * 15 + 7
C4_StopsAbove ==
    /\ probe.n = 64
    /\ probe.start = 255
    /\ probe.target = 15
    /\ probe.reg = 247

\* C5: in every state the duration query returns 32 * (4 * d + 1) for d the
\* duration field of the row the ROM gives for the latched phone: set by
\* write_phone (and reset), the same after any number of generate_samples.
C5_Duration ==
    Constructs =>
        get_phoneme_duration_samples(synth)
            = 32 * ((4 * RomRow(synth.rom_data, synth.phone).rom_duration) + 1)

\* write_phone(31) on the well-formed ROM (S, duration field 2), then samples
\* generated: the query still returns 32 * 9
C5_StableAfterSamples ==
    /\ Constructs
    /\ rom_file = File("good")
    /\ synth.phone = 31
    /\ op.name = "generate_samples"
    /\ synth.sample_count >= 20
    /\ get_phoneme_duration_samples(synth) = 288

\* C6: while the phone is 0x03 or 0x3E and filt_fa and filt_va are 0, the
\* chip update of a generate_samples step leaves cur_fc, cur_f1, cur_f2,
\* cur_f2q and cur_f3 as they are.
C6_PauseSkipsFormants ==
    [][(/\ Constructs
        /\ IsPausePhone(synth.phone)
        /\ synth.filt_fa = 0
        /\ synth.filt_va = 0
        /\ op'.name = "generate_samples")
            => Formants(synth') = Formants(synth)]_vars

\* the second tick_208 update (chip update 88) has just run under PA0 with
\* targets that differ from the registers STOP left: the registers stayed
C6_SkippedOnTick208 ==
    /\ Constructs
    /\ op.name = "generate_samples"
    /\ synth.phone = 3
    /\ synth.sample_count = 175
    /\ synth.update_counter = 40
    /\ synth.filt_fa = 0
    /\ synth.filt_va = 0
    /\ synth.cur_f1 = 8
    /\ synth.rom_f1 = 5

\* C7: the phone register is within 0..63 in every state, and right after
\* write_phone(p) it holds p & 0x3F.
C7_PhoneMasked ==
    Constructs =>
        /\ synth.phone \in 0..63
        /\ op.name = "write_phone" => synth.phone = And6(op.arg)

\* write_phone(67) has latched 3, write_phone(-1) 63
C7_OutOfRangeLatched ==
    /\ Constructs
    /\ op.name = "write_phone"
    /\ \/ op.arg = 67 /\ synth.phone = 3
       \/ op.arg = -1 /\ synth.phone = 63

\* C8: right after write_phone(p), phonetick and ticks are 0, the rom_*
\* fields are the decode of the ROM word found for p & 0x3F, rom_pause tells
\* whether the phone is 0x03 or 0x3E, and with rom_cld = 0 cur_closure is
\* (rom_closure != 0).
C8_SynchronousCommit ==
    (Constructs /\ op.name = "write_phone") =>
        /\ synth.phonetick = 0
        /\ synth.ticks = 0
        /\ RomFields(synth) = Decode(RomLookup(synth.rom_data, And6(op.arg)))
        /\ synth.rom_pause = (And6(op.arg) \in {3, 62})
        /\ synth.rom_cld = 0 => synth.cur_closure = (synth.rom_closure # 0)

\* write_phone(67) at sample 37 of the well-formed ROM, ticks having reached
\* 0x10 before: the counters are 0 again and the fields are those of PA0
C8_CommittedPA0 ==
    /\ Constructs
    /\ rom_file = File("good")
    /\ op = [name |-> "write_phone", arg |-> 67]
    /\ synth.sample_count = 37
    /\ synth.ticks = 0
    /\ synth.phonetick = 0
    /\ RomFields(synth) =
        [rom_f1 |-> 5, rom_va |-> 0, rom_f2 |-> 9, rom_fc |-> 4, rom_f2q |-> 2,
         rom_f3 |-> 3, rom_fa |-> 0, rom_cld |-> 1, rom_vd |-> 1,
         rom_closure |-> 0, rom_duration |-> 1]
    /\ synth.rom_pause

\* C9 as stated: with no ROM entry for the phone, every decoded field,
\* rom_duration included, is 0.
C9_FallbackAllZero ==
    (Constructs /\ ~RomHasEntry(synth.rom_data, synth.phone)) =>
        \A f \in DOMAIN RomFields(synth) : RomFields(synth)[f] = 0

\* C9 as amended: with no ROM entry for the phone, every decoded field is 0
\* except rom_duration, which is 127 (the duration is decoded from the
\* inverted word).
C9_FallbackZeroWord ==
    (Constructs /\ ~RomHasEntry(synth.rom_data, synth.phone)) =>
        /\ \A f \in DOMAIN RomFields(synth) \ {"rom_duration"} :
                RomFields(synth)[f] = 0
        /\ synth.rom_duration = 127

\* write_phone(31) on the ROM that has no entry for code 31
C9_MissingCode31 ==
    /\ Constructs
    /\ rom_file = File("holes")
    /\ op = [name |-> "write_phone", arg |-> 31]
    /\ ~RomHasEntry(synth.rom_data, synth.phone)
    /\ synth.rom_duration = 127
    /\ synth.rom_fa = 0

\* C10: a ROM file whose length is not 512 bytes, shorter or longer, ends
\* construction in an error.
C10_BadSizeRejected ==
    (rom_file.exists /\ rom_file.len # RomSize) => err = "ValueError"

\* C11: with no ROM file construction succeeds with 512 zero bytes, and
\* whatever write_phone, reset and generate_samples calls follow, cur_fa,
\* cur_va, filt_fa and filt_va are 0 and every sample returned is zero.
C11_MissingRomSilent ==
    ~rom_file.exists =>
        /\ Constructs
        /\ synth.rom_data = [content |-> "zeros", len |-> RomSize]
        /\ Content(synth.rom_data.content) = [k \in 1..RomSize |-> 0]
        /\ synth.cur_fa = 0 /\ synth.cur_va = 0
        /\ synth.filt_fa = 0 /\ synth.filt_va = 0
        /\ \A i \in 1..Len(buf) : buf[i] = Zero

\* no ROM file, a write_phone made, and two samples returned after the first
\* amplitude tick (chip update 16), the glottal wave being off its zero step
C11_SilentPastAmplitudeTick ==
    /\ ~rom_file.exists
    /\ writes > 0
    /\ op.name = "generate_samples"
    /\ synth.sample_count >= 33
    /\ Shr(synth.pitch, 3) = 2
    /\ buf = <<Zero, Zero>>

Histories(s) ==
    <<s.voice_1, s.voice_2, s.voice_3, s.noise_1, s.noise_2, s.noise_3,
      s.noise_4, s.vn_1, s.vn_2, s.vn_3, s.vn_4, s.vn_5, s.vn_6>>

\* the coefficient arrays of the seven filters
Coefficients(s) ==
    <<s.f1_a, s.f1_b, s.f2v_a, s.f2v_b, s.f2n_a, s.f2n_b, s.f3_a, s.f3_b,
      s.f4_a, s.f4_b, s.fx_a, s.fx_b, s.fn_a, s.fn_b>>

\* C13: whatever came before it, reset() leaves the instance as construction
\* with the same ROM does: histories, counters and registers zero, phone 0x3F
\* committed, inflection 0, and the coefficients of all seven filters built
\* by a forced commit of the zero registers.
C13_ResetAsConstructed ==
    op.name = "reset" =>
        /\ synth = New(rom_file).synth
        /\ twin.synth = New(rom_file).synth
        /\ \A i \in 1..13 : Histories(synth)[i] = <<Zero, Zero, Zero, Zero>>
        /\ synth.sample_count = 0 /\ synth.phonetick = 0 /\ synth.ticks = 0
        /\ synth.update_counter = 0 /\ synth.pitch = 0 /\ synth.closure = 0
        /\ synth.noise = 0
        /\ synth.cur_fa = 0 /\ synth.cur_va = 0 /\ Formants(synth) = <<0, 0, 0, 0, 0>>
        /\ synth.filt_fa = 0 /\ synth.filt_va = 0 /\ synth.filt_fc = 0
        /\ synth.filt_f1 = 0 /\ synth.filt_f2 = 0 /\ synth.filt_f2q = 0
        /\ synth.filt_f3 = 0
        /\ synth.phone = 63 /\ synth.inflection = 0
        /\ RomFields(synth) = Decode(RomLookup(synth.rom_data, 63))
        /\ synth.rom_pause = FALSE
        /\ Coefficients(synth) = Coefficients(filters_commit(Cleared(synth), TRUE))
        /\ \A i \in 1..7 : Coefficients(synth)[2 * i] # Zeros4

\* reset() of an instance that had returned voiced samples
C13_ResetAfterVoicedRun ==
    /\ op.name = "reset"
    /\ twin.apart
    /\ \E i \in 1..Len(buf) : buf[i] = Float

\* the instance s with the histories of the analog path as they are in t
WithHistories(s, t) ==
    [s EXCEPT
        !.voice_1 = t.voice_1, !.voice_2 = t.voice_2, !.voice_3 = t.voice_3,
        !.noise_1 = t.noise_1, !.noise_2 = t.noise_2, !.noise_3 = t.noise_3,
        !.noise_4 = t.noise_4,
        !.vn_1 = t.vn_1, !.vn_2 = t.vn_2, !.vn_3 = t.vn_3, !.vn_4 = t.vn_4,
        !.vn_5 = t.vn_5, !.vn_6 = t.vn_6]

\* C14: in a call that generates one sample, the registers are those of one
\* chip_update when the incremented sample_count is odd (the pitch counter
\* has moved) and are untouched when it is even; and the histories are those
\* analog_calc computes from the registers, quantized values and coefficients
\* as they are after that chip_update: the sources it shifted in are those of
\* the new pitch and amplitudes.
C14_UpdateThenAnalog ==
    [][synth'.sample_count = synth.sample_count + 1 =>
        LET counted  == [synth EXCEPT !.sample_count = @ + 1]
            digital  == WithHistories(synth', synth)
        IN /\ synth'.sample_count % 2 = 1 =>
                /\ digital = chip_update(counted)
                /\ synth'.pitch # synth.pitch
           /\ synth'.sample_count % 2 = 0 => digital = counted
           /\ Histories(synth') = Histories(analog_calc(digital))
           /\ synth'.voice_1[1] = voice_source(synth')
           /\ synth'.noise_1[1] = noise_source(synth')
           /\ buf' = <<returned(synth')>>
      ]_vars

\* an odd sample whose chip_update moved the pitch counter onto the first
\* nonzero step of the glottal wave, which the same sample's voice source has
\* taken up
C14_VoiceStartsOnUpdate ==
    /\ op = [name |-> "generate_samples", arg |-> 1]
    /\ synth.sample_count % 2 = 1
    /\ synth.pitch = 8 /\ synth.filt_va > 0
    /\ synth.voice_1[1] = Float /\ synth.voice_1[2] = Zero

\* |a - b| <= 1
WithinOne(a, b) == a - b \in {-1, 0, 1}

\* C15 as stated: over 10000 samples with target_pitch constant, pitch is
\* reset to 0 on reaching target_pitch floor(10000 / target_pitch) times,
\* give or take one.
C15_WrapsPerSample ==
    probe.n = PitchWindow =>
        WithinOne(probe.resets, PitchWindow \div probe.tp)

\* C15: over 10000 samples with target_pitch constant, which are 5000 chip
\* updates, pitch is reset to 0 on reaching target_pitch
\* floor(5000 / target_pitch) times, give or take one, when target_pitch is
\* at most 255; a target_pitch of 256 is never reached, and pitch comes back
\* to 0 through the 8-bit mask floor(5000 / 256) times, give or take one.
C15_WrapsPerUpdate ==
    probe.n = PitchWindow =>
        IF probe.tp <= 255
        THEN /\ WithinOne(probe.resets, (PitchWindow \div 2) \div probe.tp)
             /\ probe.zeros = probe.resets
        ELSE /\ probe.resets = 0
             /\ WithinOne(probe.zeros, (PitchWindow \div 2) \div 256)

\* 10000 samples of EH3 with target_pitch 242 throughout
C15_WindowOfEH3 ==
    /\ probe.n = PitchWindow
    /\ probe.tp = 242
    /\ synth.phone = 0 /\ synth.filt_f1 = 8
    /\ probe.resets \in {20, 21}

\* sum over i of ((val >> bits[i]) & 1) << (k - i), i from 1 to k = len(bits)
RECURSIVE PlacedSum(_, _, _)
PlacedSum(val, bits, i) ==
    IF i > Len(bits) THEN 0
    ELSE (val[bits[i]] * (2 ^ (Len(bits) - i))) + PlacedSum(val, bits, i + 1)

\* the zero word with bit (k - i) of res written to position bits[i], for
\* every i
Scatter(res, bits) ==
    [p \in 0..63 |->
        IF \E i \in 1..Len(bits) : bits[i] = p
        THEN LET i == CHOOSE i \in 1..Len(bits) :
                        /\ bits[i] = p
                        /\ \A j \in 1..Len(bits) : bits[j] = p => j <= i
             IN (res \div (2 ^ (Len(bits) - i))) % 2
        ELSE 0]

\* val with every bit cleared that is at none of the positions
Masked(val, bits) ==
    [p \in 0..63 |-> IF \E i \in 1..Len(bits) : bits[i] = p THEN val[p] ELSE 0]

\* C16: bitswap(val, p0, ..., p(k-1)) is the sum of the bits of val at the
\* positions, the bit at p_i weighing 2^(k-1-i); and writing bit k-1-i of the
\* result back to position p_i of a zero word gives val masked to the
\* positions.
C16_BitswapRoundTrip ==
    probe.done =>
        /\ probe.res = PlacedSum(probe.val, probe.bits, 1)
        /\ Scatter(probe.res, probe.bits) = Masked(probe.val, probe.bits)

\* bits 63, 0 and 36 of a word of ones with bit 0 clear: 0b101
C16_SwappedThree ==
    /\ probe.done
    /\ probe.bits = <<63, 0, 36>>
    /\ probe.val[63] = 1 /\ probe.val[0] = 0 /\ probe.val[36] = 1
    /\ probe.val[1] = 1
    /\ probe.res = 5

\* C17: from construction on, through reset and every filters_commit, the
\* F2 noise injection filter has a = [0, 0], b = [1, 0] and its other taps 0.
C17_InjectionNeutral ==
    Constructs =>
        /\ synth.f2n_a = <<Num(0), Num(0), Num(0), Num(0)>>
        /\ synth.f2n_b = <<Num(1), Num(0), Num(0), Num(0)>>

\* a routine commit has rebuilt the F2 pair for registers that have moved:
\* the voice filter has the coefficients of the new filt_f2 and filt_f2q
C17_NeutralAfterRebuild ==
    /\ synth.filt_f2 > 0 /\ synth.filt_f2q > 0
    /\ synth.f2v_b # New(rom_file).synth.f2v_b
    /\ synth.f2v_b = filters_commit(synth, TRUE).f2v_b
    /\ synth.f2n_b = <<Num(1), Num(0), Num(0), Num(0)>>

\* the coefficient arrays of F1, of F2 (voice and noise), of F3, and of the
\* fixed filters F4, Fx and Fn
CoefF1(s) == <<s.f1_a, s.f1_b>>

CoefF2(s) == <<s.f2v_a, s.f2v_b, s.f2n_a, s.f2n_b>>

CoefF3(s) == <<s.f3_a, s.f3_b>>

CoefFixed(s) == <<s.f4_a, s.f4_b, s.fx_a, s.fx_b, s.fn_a, s.fn_b>>

\* the forced commit of construction has built all seven filters
ForcedBuildsAll ==
    /\ \A i \in 1..7 : Coefficients(synth)[2 * i] # Zeros4
    /\ Coefficients(synth) = Coefficients(filters_commit(synth, TRUE))
    /\ Coefficients(synth) # Coefficients(filters_commit(Cleared(synth), FALSE))

\* C18: the forced commit builds all seven filters; the routine commit of a
\* chip update (pitch & 0xF9 == 8) rebuilds F1 only if cur_f1 >> 4 is not the
\* filt_f1 it finds, the F2 pair only if cur_f2 >> 3 is not filt_f2 or
\* cur_f2q >> 4 is not filt_f2q, F3 only if cur_f3 >> 4 is not filt_f3, each
\* for the new quantized values, and leaves the arrays of every other filter,
\* F4, Fx and Fn always, as they were.
C18_CommitRebuilds ==
    /\ ForcedBuildsAll
    /\ [][(synth'.sample_count = synth.sample_count + 2
            /\ BitAnd(synth'.pitch, 249) = 8) =>
            LET full == filters_commit(synth', TRUE) IN
            /\ CoefF1(synth') =
                 IF Shr(synth'.cur_f1, 4) # synth.filt_f1
                 THEN CoefF1(full) ELSE CoefF1(synth)
            /\ CoefF2(synth') =
                 IF \/ Shr(synth'.cur_f2, 3) # synth.filt_f2
                    \/ Shr(synth'.cur_f2q, 4) # synth.filt_f2q
                 THEN CoefF2(full) ELSE CoefF2(synth)
            /\ CoefF3(synth') =
                 IF Shr(synth'.cur_f3, 4) # synth.filt_f3
                 THEN CoefF3(full) ELSE CoefF3(synth)
            /\ CoefFixed(synth') = CoefFixed(synth)
            /\ synth'.filt_f1 = Shr(synth'.cur_f1, 4)
            /\ synth'.filt_f2 = Shr(synth'.cur_f2, 3)
            /\ synth'.filt_f2q = Shr(synth'.cur_f2q, 4)
            /\ synth'.filt_f3 = Shr(synth'.cur_f3, 4)
       ]_vars

\* after the first routine commit that finds registers moved (f1 = 15 and
\* f2 = 1 of the duplicated code): F1 and the F2 pair stand rebuilt for the
\* new filt_f1 and filt_f2; F3, whose cur_f3 >> 4 is still 0, and the fixed
\* filters are as construction built them
C18_RebuiltF1F2Only ==
    /\ op.name = "generate_samples"
    /\ BitAnd(synth.pitch, 249) = 8
    /\ synth.filt_f1 = 7 /\ synth.filt_f2 = 1 /\ synth.filt_f3 = 0
    /\ CoefF1(synth) # CoefF1(New(rom_file).synth)
    /\ CoefF1(synth) = CoefF1(filters_commit(synth, TRUE))
    /\ CoefF2(synth) # CoefF2(New(rom_file).synth)
    /\ CoefF2(synth) = CoefF2(filters_commit(synth, TRUE))
    /\ CoefF3(synth) = CoefF3(New(rom_file).synth)
    /\ CoefFixed(synth) = CoefFixed(New(rom_file).synth)

\* C19: in a ROM that holds each code 0..63 in exactly one entry, the word
\* the lookup selects for a phone is the same whatever the order of the 64
\* entries: it is the word selected in the ROM as the file has it, the one
\* entry that carries the phone's code.
C19_LookupOrderFree ==
    probe.done =>
        /\ Codes(probe.rom_data) = 0..63
        /\ probe.val = RomLookup(synth.rom_data, probe.phone)
        /\ WordCode(probe.val) = probe.phone
        /\ Decode(probe.val) = RomRow(synth.rom_data, probe.phone)

\* the entry of EH3, the last of the file, looked up after being exchanged
\* with the first
C19_FoundAfterExchange ==
    /\ probe.done
    /\ probe.phone = 0
    /\ probe.rom_data.order = Exchange(0, 63)
    /\ EntryBytes(probe.rom_data, 0) = EntryEH3
    /\ Decode(probe.val).rom_f1 = 8 /\ Decode(probe.val).rom_va = 15

(***************************************************************************)
(* C21: update_counter stays in 0..0x2F and every chip update advances it  *)
(* by one modulo 0x30; in any 0x30 consecutive chip updates of a run       *)
(* tick_625 fires exactly three times and tick_208 exactly once, and no    *)
(* chip update fires both.                                                 *)
(***************************************************************************)
C21_TickSchedule ==
    /\ [](/\ synth.update_counter \in 0..47
          /\ \A i \in 1..Len(seen) : ~(seen[i].tick_625 /\ seen[i].tick_208)
          /\ Len(seen) = TickWindow =>
                /\ Cardinality({i \in 1..TickWindow : seen[i].tick_625}) = 3
                /\ Cardinality({i \in 1..TickWindow : seen[i].tick_208}) = 1)
    /\ [][synth'.sample_count = synth.sample_count + 2 =>
            synth'.update_counter = (synth.update_counter + 1) % 48]_vars

\* a full window that neither starts nor ends at the counter's wrap
C21_WindowAcrossWrap ==
    /\ Len(seen) = TickWindow
    /\ synth.update_counter = 20
    /\ seen[TickWindow - 4].tick_625
    /\ synth.sample_count > 200

(***************************************************************************)
(* C22: a chip update moves cur_fa (by interpolate towards rom_fa) only    *)
(* when tick_625 is set and ticks has reached rom_vd, and moves cur_va     *)
(* (towards rom_va) only when tick_625 is set and ticks has reached        *)
(* rom_cld; every other chip update, and every sample without a chip       *)
(* update, leaves them as they were.  (Read on the generate_samples calls  *)
(* that hold at most one chip update.)                                     *)
(***************************************************************************)
C22_AmplitudeGates ==
    [][LET updates == ((synth'.sample_count + 1) \div 2) - ((synth.sample_count + 1) \div 2)
           tick    == updates = 1 /\ tick_625(synth')
       IN (op'.name = "generate_samples" /\ updates <= 1) =>
           /\ synth'.cur_fa = IF tick /\ synth'.ticks >= synth.rom_vd
                              THEN interpolate(synth.cur_fa, synth.rom_fa)
                              ELSE synth.cur_fa
           /\ synth'.cur_va = IF tick /\ synth'.ticks >= synth.rom_cld
                              THEN interpolate(synth.cur_va, synth.rom_va)
                              ELSE synth.cur_va]_vars

\* the chip update of the first tick_625 came before ticks reached rom_vd and
\* rom_cld: the amplitudes have targets to move to and did not move
C22_HeldAtTick ==
    /\ op.name = "generate_samples"
    /\ synth.sample_count = 31
    /\ tick_625(synth)
    /\ synth.ticks < synth.rom_vd /\ synth.ticks < synth.rom_cld
    /\ synth.rom_fa = 14 /\ synth.rom_va = 1
    /\ synth.cur_fa = 0 /\ synth.cur_va = 0

(***************************************************************************)
(* C23: closure stays in 0..28.  Each chip update sets it to 0 when        *)
(* cur_closure is false and filt_fa or filt_va is nonzero, and otherwise   *)
(* adds exactly one unless it is already 28; the gain factor               *)
(* 7 XOR (closure >> 2) of analog_calc therefore stays in 0..7.            *)
(***************************************************************************)
C23_ClosureRamp ==
    /\ [](/\ synth.closure \in 0..28
          /\ BitXor(7, Shr(synth.closure, 2)) \in 0..7)
    /\ [][synth'.sample_count = synth.sample_count + 2 =>
            synth'.closure =
                IF ~synth'.cur_closure /\ (synth.filt_fa # 0 \/ synth.filt_va # 0)
                THEN 0
                ELSE IF synth.closure = 28 THEN 28 ELSE synth.closure + 1]_vars

\* the ramp was at its top and an open closure with a sounding voice has
\* just sent it back to 0
C23_ReopenedAfterTop ==
    /\ synth.closure = 0
    /\ synth.sample_count > 400
    /\ ~synth.cur_closure
    /\ synth.filt_va # 0
    /\ synth.pitch = 8

(***************************************************************************)
(* C24: cur_closure changes at two points only: in phone_commit when the   *)
(* new phone has rom_cld = 0, and in the chip update that advances ticks   *)
(* to rom_cld; at both it becomes (rom_closure # 0).  A phone committed    *)
(* with rom_cld > 0 leaves it at the previous phoneme's value until that   *)
(* tick.  (The phone_commit of reset is one for phone 0x3F, whose rom_cld  *)
(* is 0 in each ROM here; the chip updates are read on the                 *)
(* generate_samples calls that hold at most one.)                          *)
(***************************************************************************)
C24_ClosureLatch ==
    [][/\ op'.name \in {"write_phone", "reset"} =>
            synth'.cur_closure = IF synth'.rom_cld = 0
                                 THEN (synth'.rom_closure # 0)
                                 ELSE synth.cur_closure
       /\ op'.name = "reset" => synth'.rom_cld = 0
       /\ (/\ op'.name = "generate_samples"
           /\ ((synth'.sample_count + 1) \div 2) - ((synth.sample_count + 1) \div 2) <= 1) =>
            synth'.cur_closure = IF /\ synth'.ticks = synth.ticks + 1
                                    /\ synth'.ticks = synth.rom_cld
                                 THEN (synth.rom_closure # 0)
                                 ELSE synth.cur_closure]_vars

\* ticks has just reached rom_cld = 2 and the closure of the phone written
\* two phoneme ticks earlier has replaced the one held since reset
C24_LatchedAtTick ==
    /\ op.name = "generate_samples"
    /\ writes = 1
    /\ synth.rom_cld = 2 /\ synth.ticks = 2 /\ synth.phonetick = 0
    /\ synth.rom_closure = 0 /\ ~synth.cur_closure
    /\ synth.closure > 0

\* the instance s with the quantized registers and the coefficients of the
\* filters as they are in t
WithFilters(s, t) ==
    [s EXCEPT
        !.filt_fa = t.filt_fa, !.filt_fc = t.filt_fc, !.filt_va = t.filt_va,
        !.filt_f1 = t.filt_f1, !.filt_f2 = t.filt_f2, !.filt_f2q = t.filt_f2q,
        !.filt_f3 = t.filt_f3,
        !.f1_a = t.f1_a, !.f1_b = t.f1_b, !.f2v_a = t.f2v_a, !.f2v_b = t.f2v_b,
        !.f2n_a = t.f2n_a, !.f2n_b = t.f2n_b, !.f3_a = t.f3_a, !.f3_b = t.f3_b,
        !.f4_a = t.f4_a, !.f4_b = t.f4_b, !.fx_a = t.fx_a, !.fx_b = t.fx_b,
        !.fn_a = t.fn_a, !.fn_b = t.fn_b]

(***************************************************************************)
(* C25: pitch stays in 0..0xFF.  Each chip update adds one modulo 256 and  *)
(* then sets it to 0 if it equals target_pitch; the update performs        *)
(* filters_commit(False) exactly when the resulting pitch has              *)
(* (pitch & 0xF9) = 0x08 (pitch 8, 10, 12 or 14), and in no other chip     *)
(* update are the quantized registers or the coefficients touched.         *)
(***************************************************************************)
C25_PitchAndCommit ==
    /\ [](synth.pitch \in 0..255)
    /\ [][synth'.sample_count = synth.sample_count + 2 =>
            LET p    == (synth.pitch + 1) % 256
                kept == WithFilters(synth', synth)
            IN /\ synth'.pitch = IF p = target_pitch(synth) THEN 0 ELSE p
               /\ synth' = IF synth'.pitch \in {8, 10, 12, 14}
                           THEN filters_commit(kept, FALSE)
                           ELSE kept]_vars

\* the chip update that brought pitch to 12 was one of tick_208: it moved
\* cur_f1 to 97 and its commit took filt_f1 from 5 to 6
C25_CommitAtTwelve ==
    /\ synth.sample_count = 944
    /\ synth.pitch = 12
    /\ tick_208(synth)
    /\ synth.cur_f1 = 97 /\ synth.filt_f1 = 6

(***************************************************************************)
(* C26: right after every filters_commit the quantized registers are the   *)
(* snapshots filt_f1 = cur_f1 >> 4, filt_f2 = cur_f2 >> 3,                 *)
(* filt_f2q = cur_f2q >> 4, filt_f3 = cur_f3 >> 4, filt_fa = cur_fa >> 4,  *)
(* filt_fc = cur_fc >> 4 and filt_va = cur_va >> 4; and no operation       *)
(* without a filters_commit (write_phone, a chip update off the commit     *)
(* window, a sample without chip update) changes a filt_* register.        *)
(***************************************************************************)
C26_QuantizedSnapshots ==
    /\ [](op.name = "new" =>
            /\ synth.filt_f1 = Shr(synth.cur_f1, 4) /\ synth.filt_f2 = Shr(synth.cur_f2, 3)
            /\ synth.filt_f2q = Shr(synth.cur_f2q, 4) /\ synth.filt_f3 = Shr(synth.cur_f3, 4)
            /\ synth.filt_fa = Shr(synth.cur_fa, 4) /\ synth.filt_fc = Shr(synth.cur_fc, 4)
            /\ synth.filt_va = Shr(synth.cur_va, 4))
    /\ [][LET quantized(s) == <<s.filt_f1, s.filt_f2, s.filt_f2q, s.filt_f3,
                                s.filt_fa, s.filt_fc, s.filt_va>>
              snapshot(s)  == <<Shr(s.cur_f1, 4), Shr(s.cur_f2, 3), Shr(s.cur_f2q, 4),
                                Shr(s.cur_f3, 4), Shr(s.cur_fa, 4), Shr(s.cur_fc, 4),
                                Shr(s.cur_va, 4)>>
          IN /\ op'.name = "write_phone" => quantized(synth') = quantized(synth)
             /\ op'.name = "generate_samples" =>
                    IF BitAnd(synth'.pitch, 249) = 8
                    THEN quantized(synth') = snapshot(synth')
                    ELSE quantized(synth') = quantized(synth)]_vars

\* the commit at pitch 14 of the second pitch period: cur_f2 = 87 is
\* quantized by 3 bits to 10, cur_va = 210 by 4 bits to 13
C26_SnapshotOfF2 ==
    /\ synth.sample_count = 480
    /\ synth.pitch = 14
    /\ synth.cur_f2 = 87 /\ synth.filt_f2 = 10
    /\ synth.cur_va = 210 /\ synth.filt_va = 13

(***************************************************************************)
(* C27: in every reachable state each of cur_fa, cur_fc, cur_va, cur_f1,   *)
(* cur_f2, cur_f2q and cur_f3 is a non-negative integer that fits in 8     *)
(* bits, so that filt_f2 fits in 5 bits and every other filt_* register in *)
(* 4 bits.                                                                 *)
(***************************************************************************)
C27_RegistersFit ==
    /\ \A r \in {synth.cur_fa, synth.cur_fc, synth.cur_va, synth.cur_f1,
                  synth.cur_f2, synth.cur_f2q, synth.cur_f3} : r \in 0..255
    /\ synth.filt_f2 \in 0..31
    /\ \A q \in {synth.filt_fa, synth.filt_fc, synth.filt_va, synth.filt_f1,
                  synth.filt_f2q, synth.filt_f3} : q \in 0..15

\* registers driven by the largest 4-bit target have settled at 16 * 15 and
\* been committed
C27_SettledAtTop ==
    /\ synth.rom_f1 = 15 /\ synth.cur_f1 = 240 /\ synth.filt_f1 = 15
    /\ synth.rom_fc = 15 /\ synth.cur_fc = 240 /\ synth.filt_fc = 15
    /\ synth.rom_fa = 14 /\ synth.cur_fa = 224 /\ synth.filt_fa = 14

(***************************************************************************)
(* C28: the capacitor values the filter designer divides by are strictly   *)
(* positive for every value the quantized registers reach: in the standard *)
(* filters F1, F2-voice, F3 (and the fixed F4) c1b > 0 and                 *)
(* c3 = base + bits_to_caps(filt, table) > 0, the base alone when no       *)
(* capacitor is selected; c2t, the divisor of the injection filter, and    *)
(* c2b and c4, the factors of the divisor k2, are positive too, and        *)
(* c1t * c2t differs from c1b * c2b, so that val and with it fpeak is not  *)
(* zero.                                                                   *)
(***************************************************************************)
C28_DivisorsPositive ==
    /\ \A g \in {synth.f1_a[1].of, synth.f2v_a[1].of, synth.f3_a[1].of,
                  synth.f4_a[1].of} :
            /\ g[2] > 0 /\ g[5] > 0
            /\ g[3] > 0 /\ g[4] > 0 /\ g[6] > 0
            /\ g[1] * g[3] # g[2] * g[4]
    /\ synth.f1_a[1].of[5] = 2280 + bits_to_caps(synth.filt_f1, <<2546, 4973, 9861, 19724>>)
    /\ synth.f2v_a[1].of[5]
            = 2352 + bits_to_caps(synth.filt_f2, <<833, 1663, 3164, 6327, 12654>>)
    /\ synth.f2v_a[1].of[3] = 829 + bits_to_caps(synth.filt_f2q, <<1390, 2965, 5875, 11297>>)
    /\ synth.f3_a[1].of[5] = 8480 + bits_to_caps(synth.filt_f3, <<2226, 4485, 9056, 18111>>)
    /\ \A i \in 1..2 : synth.fx_b[1].of[i] > 0
    /\ \A i \in 1..5 : synth.fn_b[1].of[i] > 0

\* a routine commit has rebuilt F1 with capacitors selected while F3 stands
\* on its base capacitor alone
C28_BaseAloneAndBank ==
    /\ synth.filt_f1 > 0 /\ synth.f1_a[1].of[5] > 2280
    /\ synth.filt_f3 = 0 /\ synth.f3_a[1].of[5] = 8480
    /\ synth.sample_count > 0

(***************************************************************************)
(* C29: the noise register depends on nothing but the number of chip       *)
(* updates since reset: two runs with different ROMs, phone sequences and  *)
(* filt_fa values have the same noise and cur_noise after the same number  *)
(* of chip updates.                                                        *)
(***************************************************************************)
C29_NoiseIndependent ==
    /\ synth.sample_count = twin.synth.sample_count
    /\ synth.noise = twin.synth.noise
    /\ synth.cur_noise = twin.synth.cur_noise

\* the run with the ROM, a phone written and frication open (filt_fa = 14)
\* against the run without ROM (filt_fa = 0), the register well under way
C29_SameNoiseDifferentRuns ==
    /\ rom_file.exists /\ writes = 1
    /\ twin.synth.rom_data # synth.rom_data
    /\ synth.filt_fa = 14 /\ twin.synth.filt_fa = 0
    /\ synth.filt_f1 # twin.synth.filt_f1
    /\ synth.noise > 2 ^ 14 /\ synth.sample_count > 10 ^ 3
    /\ buf # twin.buf

\* the largest number of samples split into two calls
MaxChunk == 3

(***************************************************************************)
(* C30: generate_samples(a) followed by generate_samples(b) leaves the     *)
(* instance in the same state, and returns the same samples end to end, as *)
(* one generate_samples(a + b), from every state and for all a, b >= 0;    *)
(* and N samples after reset ceil(N / 2) chip updates have run, however    *)
(* the N were split into calls (update_counter counts them modulo 0x30).   *)
(***************************************************************************)
C30_ChunkingIndependent ==
    /\ synth.update_counter = ((synth.sample_count + 1) \div 2) % 48
    /\ \A n \in 0..MaxChunk :
        LET whole == generate_samples(synth, n) IN
        /\ Len(whole.out) = n
        /\ whole.synth.update_counter = ((synth.sample_count + n + 1) \div 2) % 48
        /\ \A a \in 0..n :
            LET first  == generate_samples(synth, a)
                second == generate_samples(first.synth, n - a)
            IN /\ second.synth = whole.synth
               /\ first.out \o second.out = whole.out

\* an odd number of samples since reset, made of calls of 256 and of 1, the
\* voice sounding: three more samples bring one chip update, on the second
C30_OddVoicedStart ==
    /\ twin.joint
    /\ op = [name |-> "generate_samples", arg |-> 1]
    /\ synth.sample_count = 513
    /\ synth.filt_va > 0
    /\ buf = <<Float>>
    /\ generate_samples(synth, 3).out = <<Float, Float, Float>>
    /\ generate_samples(synth, 1).synth.pitch = synth.pitch
    /\ generate_samples(synth, 2).synth.pitch = synth.pitch + 1
    /\ generate_samples(synth, 3).synth.pitch = synth.pitch + 1

(***************************************************************************)
(* C31: write_phone called at an even sample_count and followed by         *)
(* get_phoneme_duration_samples() samples with no other write_phone: ticks *)
(* goes from 0 to 0x10 by steps of one, a step every                       *)
(* 2 * (4 * rom_duration + 1) samples, and is 0x10 first on the last       *)
(* odd-counted sample of the span, the one before its last.  In the        *)
(* synthesis loop sample_count is even at every write_phone.               *)
(***************************************************************************)
C31_TicksSpanDuration ==
    /\ op.name = "write_phone" => synth.sample_count % 2 = 0
    /\ writes > 0 =>
        LET k == synth.sample_count - probe.start
        IN /\ probe.n = 32 * ((4 * synth.rom_duration) + 1)
           /\ k \in 0..probe.n
           /\ synth.ticks = ((k + 1) \div 2) \div ((4 * synth.rom_duration) + 1)
           /\ synth.ticks = 16 <=> k >= probe.n - 1

\* the second phoneme of the loop, of duration field 3: ticks has come to
\* 0x10 on sample 415 of its 416
C31_LastOddSample ==
    /\ writes = 2
    /\ synth.rom_duration = 3
    /\ probe.start > 0
    /\ synth.sample_count = probe.start + 415
    /\ synth.ticks = 16 /\ synth.phonetick = 0

(***************************************************************************)
(* C32: with a 2-bit inflection (0..3), while samples are generated, every *)
(* 256 consecutive chip updates hold a routine filters_commit: fewer than  *)
(* 256 chip updates have run since the last one, and at that one each      *)
(* quantized register took the value of its interpolated register.         *)
(***************************************************************************)
C32_CommitWithin256 ==
    /\ probe.gap < 256
    /\ (probe.gap = 0 /\ op.name = "generate_samples") =>
            /\ synth.filt_f1 = Shr(synth.cur_f1, 4)
            /\ synth.filt_va = Shr(synth.cur_va, 4)
            /\ synth.filt_fa = Shr(synth.cur_fa, 4)

\* the longest wait: target_pitch is 256 (inflection 0, filt_f1 = 15), pitch
\* has wrapped at 256 and is one chip update short of the next commit
C32_LongestWait ==
    /\ synth.inflection = 0 /\ synth.filt_f1 = 15
    /\ synth.pitch = 7
    /\ probe.gap = 249

(***************************************************************************)
(* C33: write_phone changes only phone, phonetick, ticks, the rom_* fields *)
(* (rom_pause among them) and possibly cur_closure, which it leaves alone  *)
(* when the entry's rom_cld is not 0; sample_count, update_counter, pitch, *)
(* closure, noise, cur_noise, every other cur_* and every filt_* register, *)
(* every filter history and every coefficient array keep their values.     *)
(***************************************************************************)
C33_WritePhoneFrame ==
    [][op'.name = "write_phone" =>
        /\ synth = [synth' EXCEPT
                        !.phone        = synth.phone,
                        !.phonetick    = synth.phonetick,
                        !.ticks        = synth.ticks,
                        !.rom_f1       = synth.rom_f1,
                        !.rom_va       = synth.rom_va,
                        !.rom_f2       = synth.rom_f2,
                        !.rom_fc       = synth.rom_fc,
                        !.rom_f2q      = synth.rom_f2q,
                        !.rom_f3       = synth.rom_f3,
                        !.rom_fa       = synth.rom_fa,
                        !.rom_cld      = synth.rom_cld,
                        !.rom_vd       = synth.rom_vd,
                        !.rom_closure  = synth.rom_closure,
                        !.rom_duration = synth.rom_duration,
                        !.rom_pause    = synth.rom_pause,
                        !.cur_closure  = synth.cur_closure]
        /\ synth'.rom_cld # 0 => synth'.cur_closure = synth.cur_closure
        /\ synth'.phone = op'.arg
        /\ synth'.phonetick = 0 /\ synth'.ticks = 0]_vars

\* PA1 written as the third phoneme of a run, after two phonemes of the
\* longest entry: quantized and interpolated registers, pitch, noise and the
\* filter histories hold what the run gave them; cur_closure is taken from
\* the entry (rom_cld = 0)
C33_WrittenAfterTwoPhonemes ==
    /\ op.name = "write_phone" /\ synth.phone = 62 /\ writes = 3
    /\ synth.sample_count = 832
    /\ synth.pitch > 0 /\ synth.noise > 0 /\ synth.update_counter > 0
    /\ synth.cur_f1 > 0 /\ synth.cur_va > 0
    /\ synth.filt_f1 > 0 /\ synth.filt_fa > 0
    /\ synth.vn_6 # ZeroHist
    /\ synth.rom_cld = 0 /\ ~synth.cur_closure

(***************************************************************************)
(* C34: under every interleaving of Play and Save clicks with the worker   *)
(* threads they start, at most one worker thread at a time is inside       *)
(* generate_audio on the shared synthesizer.                               *)
(***************************************************************************)
C34_OneWorkerInGenerateAudio ==
    Cardinality({t \in 1..MaxThreads : probe.threads[t].at = "loop"}) <= 1

\* a Play click came between the start of a Save worker and its
\* set_loading(True): both workers are in the loop of generate_audio, each
\* with a phoneme synthesized on the one synthesizer
C34_SaveAndPlayInTheLoop ==
    /\ probe.threads[1].task = "save" /\ probe.threads[1].at = "loop"
    /\ probe.threads[2].task = "play" /\ probe.threads[2].at = "loop"
    /\ probe.threads[1].i = 1 /\ probe.threads[2].i = 1
    /\ probe.is_generating

(***************************************************************************)
(* C35: whenever a stop is requested (stop_requested set by a Play click   *)
(* made while is_generating holds), the window eventually is idle again,   *)
(* with is_generating and stop_requested both false.                       *)
(***************************************************************************)
C35_StopLeadsToIdle ==
    probe.stop_requested ~> (~probe.is_generating /\ ~probe.stop_requested)

\* stopped during playback: the callback has come due and left both flags
\* set, no thread and no callback is left to clear them
C35_StuckAfterStop ==
    /\ probe.is_generating /\ probe.stop_requested
    /\ probe.after = 0
    /\ \A t \in 1..MaxThreads : probe.threads[t].task = "none"
    /\ op.name = "after"

====
